---------------------------- MODULE Spec2Model ----------------------------
(***************************************************************************)
(* A model of the json-parser-rust library: the pull-based Lexer           *)
(* (src/lexer.rs), the recursive-descent parser and the Display rendering  *)
(* of JsonData (src/parser.rs), and the typed Json<S> handle (src/json.rs).*)
(*                                                                         *)
(* Text is a sequence of one-character strings.  A String of the program   *)
(* (a token text, a Str value, an object key) is such a sequence too.      *)
(***************************************************************************)
EXTENDS Integers, Sequences, FiniteSets, TLC

VARIABLES
    input,        \* the text handed to Lexer::new / parse_json / Json::new
    lexer,        \* the fields of a Lexer over `input` (chars position, exhausted, col, row, char_count)
    tokens,       \* the tokens pulled from the Lexer so far (history of Iterator::next)
    last,         \* the latest Iterator::next: what it returned ("Some", "None"; "Start" before
                  \* the first) and the Lexer's chars position and exhausted flag it started from
    doc,          \* a JsonData value handed to Display (to_string), or NoDoc
    result,       \* the Result of parse_json(input), or NoResult
    json,         \* a Json<S> handle: [tag, data], or NoJson
    fresh,        \* the handle `json` as it was when it was created (by Json::new or by the
                  \* accessor that returned it), or NoJson
    call,         \* the latest call made on the library: [op, ...], or NoCall
    ret           \* the Result of the latest Json constructor / accessor call, or NoRet

vars == <<input, lexer, tokens, last, doc, result, json, fresh, call, ret>>

(***************************************************************************)
(* Bounds of the model.                                                    *)
(***************************************************************************)
MaxLexPieces == 3
MaxPieces == 4
MaxNumPieces == 3
MaxStrPieces == 4
MaxWidth == 2
MaxIndex == 2
MaxIntPieces == 3
MaxLibPieces == 4

(***************************************************************************)
(* Characters.                                                             *)
(***************************************************************************)
QUOTE == "\""
BACKSLASH == "\\"
NEWLINE == "\n"

Digits == {"0", "1", "2", "3", "4", "5", "6", "7", "8", "9"}

is_ascii_digit(c) == c \in Digits

\* char::is_whitespace, on the characters of the model's alphabet
is_whitespace(c) == c \in {" ", "\t", "\r", NEWLINE}

(***************************************************************************)
(* src/lexer.rs: the Lexer.  A Lexer state is a record                     *)
(*   [pos, exhausted, col, row, char_count]                                *)
(* where pos is the number of characters already taken from the Peekable   *)
(* character iterator.                                                     *)
(***************************************************************************)
Lexer_new == [pos |-> 0, exhausted |-> FALSE, col |-> 0, row |-> 0, char_count |-> 0]

HasChar(inp, ls) == ls.pos < Len(inp)
PeekChar(inp, ls) == inp[ls.pos + 1]

get_loc(ls) == [col |-> ls.col - ls.char_count + 1, row |-> ls.row + 1]

Token(kind, text, ls) == [kind |-> kind, text |-> text, loc |-> get_loc(ls)]

\* trim skipping line feeds only
RECURSIVE trim_newlines_only(_, _)
trim_newlines_only(inp, ls) ==
    IF HasChar(inp, ls) /\ PeekChar(inp, ls) = NEWLINE
    THEN trim_newlines_only(inp, [ls EXCEPT !.pos = @ + 1, !.row = @ + 1, !.char_count = ls.col])
    ELSE ls

\* trim counting the line feed itself into char_count
RECURSIVE trim_counting_newline(_, _)
trim_counting_newline(inp, ls) ==
    IF HasChar(inp, ls) /\ PeekChar(inp, ls) = NEWLINE
    THEN trim_counting_newline(inp, [ls EXCEPT !.pos = @ + 1, !.row = @ + 1,
                                               !.char_count = ls.col + 1])
    ELSE IF HasChar(inp, ls) /\ is_whitespace(PeekChar(inp, ls))
    THEN trim_counting_newline(inp, [ls EXCEPT !.pos = @ + 1, !.col = @ + 1])
    ELSE ls

RECURSIVE trim(_, _)
trim(inp, ls) ==
    IF HasChar(inp, ls) /\ PeekChar(inp, ls) = NEWLINE
    THEN trim(inp, [ls EXCEPT !.pos = @ + 1, !.row = @ + 1, !.char_count = ls.col])
    ELSE IF HasChar(inp, ls) /\ is_whitespace(PeekChar(inp, ls))
    THEN trim(inp, [ls EXCEPT !.pos = @ + 1, !.col = @ + 1])
    ELSE ls

\* the `for expected in ARR` loop of get_null_token / get_true_token / get_false_token
RECURSIVE keyword_loop(_, _, _, _, _)
keyword_loop(inp, ls, ARR, k, text) ==
    IF k > Len(ARR)
    THEN [matched |-> TRUE, text |-> text, ls |-> ls]
    ELSE IF HasChar(inp, ls) /\ PeekChar(inp, ls) = ARR[k]
    THEN keyword_loop(inp, [ls EXCEPT !.pos = @ + 1, !.col = @ + 1], ARR, k + 1,
                      Append(text, ARR[k]))
    ELSE [matched |-> FALSE, text |-> text, ls |-> ls]

\* keyword_token taking the mismatching character with next(), not next_if_eq
keyword_token_consuming_mismatch(inp, ls, ARR, kind) ==
    LET m == keyword_loop(inp, [ls EXCEPT !.col = @ - 1], ARR, 1, <<>>)
        ls2 == IF ~m.matched /\ HasChar(inp, m.ls) THEN [m.ls EXCEPT !.pos = @ + 1] ELSE m.ls
    IN  [tok |-> Token(IF m.matched THEN kind ELSE "Invalid", m.text, ls2), ls |-> ls2]

keyword_token(inp, ls, ARR, kind) ==
    LET m == keyword_loop(inp, [ls EXCEPT !.col = @ - 1], ARR, 1, <<>>)
    IN  [tok |-> Token(IF m.matched THEN kind ELSE "Invalid", m.text, m.ls), ls |-> m.ls]

get_null_token(inp, ls) == keyword_token(inp, ls, <<"n", "u", "l", "l">>, "Null")
get_true_token(inp, ls) == keyword_token(inp, ls, <<"t", "r", "u", "e">>, "True")
get_false_token(inp, ls) == keyword_token(inp, ls, <<"f", "a", "l", "s", "e">>, "False")

\* the `while let Some(c) = self.chars.next()` loop of get_str_token
RECURSIVE str_loop(_, _, _, _)
str_loop(inp, ls, text, escape_next) ==
    IF ~HasChar(inp, ls)
    THEN [tok |-> Token("Invalid", text, ls), ls |-> ls]
    ELSE LET c == PeekChar(inp, ls)
             ls1 == [ls EXCEPT !.pos = @ + 1, !.col = @ + 1]
             text1 == Append(text, c)
         IN  IF escape_next THEN str_loop(inp, ls1, text1, FALSE)
             ELSE IF c = BACKSLASH THEN str_loop(inp, ls1, text1, TRUE)
             ELSE IF c = QUOTE THEN [tok |-> Token("Str", text1, ls1), ls |-> ls1]
             ELSE str_loop(inp, ls1, text1, FALSE)

\* get_str_token not pushing the opening quote into the text
get_str_token_without_opening_quote(inp, ls) ==
    str_loop(inp, [ls EXCEPT !.pos = @ + 1], <<>>, FALSE)

\* get_str_token without escape_next: the first quote closes the literal
RECURSIVE str_loop_first_quote(_, _, _)
str_loop_first_quote(inp, ls, text) ==
    IF ~HasChar(inp, ls)
    THEN [tok |-> Token("Invalid", text, ls), ls |-> ls]
    ELSE LET c == PeekChar(inp, ls)
             ls1 == [ls EXCEPT !.pos = @ + 1, !.col = @ + 1]
             text1 == Append(text, c)
         IN  IF c = QUOTE THEN [tok |-> Token("Str", text1, ls1), ls |-> ls1]
             ELSE str_loop_first_quote(inp, ls1, text1)

get_str_token_first_quote(inp, ls) ==
    str_loop_first_quote(inp, [ls EXCEPT !.pos = @ + 1], <<PeekChar(inp, ls)>>)

get_str_token(inp, ls) ==
    str_loop(inp, [ls EXCEPT !.pos = @ + 1], <<PeekChar(inp, ls)>>, FALSE)

\* the `while let Some(c) = self.chars.next_if(digit or '.')` loop of get_number_token
RECURSIVE number_loop(_, _, _, _)
number_loop(inp, ls, text, is_float) ==
    IF HasChar(inp, ls) /\ (is_ascii_digit(PeekChar(inp, ls)) \/ PeekChar(inp, ls) = ".")
    THEN LET c == PeekChar(inp, ls)
             ls1 == [ls EXCEPT !.pos = @ + 1, !.col = @ + 1]
             text1 == Append(text, c)
         IN  IF c = "." /\ ~is_float
             THEN IF HasChar(inp, ls1) /\ is_ascii_digit(PeekChar(inp, ls1))
                  THEN number_loop(inp, [ls1 EXCEPT !.pos = @ + 1],
                                   Append(text1, PeekChar(inp, ls1)), TRUE)
                  ELSE [tok |-> Token("Invalid", text1, ls1), ls |-> ls1]
             ELSE number_loop(inp, ls1, text1, is_float)
    ELSE [tok |-> Token(IF is_float THEN "Float" ELSE "Integer", text, ls), ls |-> ls]

\* get_number_token without the test of what follows the sign
get_number_token_unchecked_sign(inp, ls) ==
    IF PeekChar(inp, ls) = "-"
    THEN number_loop(inp, [ls EXCEPT !.pos = @ + 1, !.col = @ + 1], <<"-">>, FALSE)
    ELSE number_loop(inp, ls, <<>>, FALSE)

get_number_token(inp, ls) ==
    IF PeekChar(inp, ls) = "-"
    THEN LET ls1 == [ls EXCEPT !.pos = @ + 1, !.col = @ + 1]
         IN  IF HasChar(inp, ls1) /\ is_ascii_digit(PeekChar(inp, ls1))
             THEN number_loop(inp, ls1, <<"-">>, FALSE)
             ELSE [tok |-> Token("Invalid", <<"-">>, ls1), ls |-> ls1]
    ELSE number_loop(inp, ls, <<>>, FALSE)

\* a token made of the single character under the cursor
single_char_token(inp, ls, kind) ==
    LET ls1 == [ls EXCEPT !.pos = @ + 1]
    IN  [tok |-> Token(kind, <<PeekChar(inp, ls)>>, ls1), ls |-> ls1]

next_token(inp, ls0) ==
    LET ls == trim(inp, ls0)
    IN  IF HasChar(inp, ls)
        THEN LET c == PeekChar(inp, ls)
                 ls1 == [ls EXCEPT !.col = @ + 1]
             IN  CASE c = "{" -> single_char_token(inp, ls1, "OpenCurly")
                   [] c = "[" -> single_char_token(inp, ls1, "OpenBracket")
                   [] c = "}" -> single_char_token(inp, ls1, "CloseCurly")
                   [] c = "]" -> single_char_token(inp, ls1, "CloseBracket")
                   [] c = "," -> single_char_token(inp, ls1, "Comma")
                   [] c = ":" -> single_char_token(inp, ls1, "Colon")
                   [] c = "n" -> get_null_token(inp, ls1)
                   [] c = "t" -> get_true_token(inp, ls1)
                   [] c = "f" -> get_false_token(inp, ls1)
                   [] c = QUOTE -> get_str_token(inp, ls1)
                   [] is_ascii_digit(c) \/ c = "-" -> get_number_token(inp, ls1)
                   [] OTHER -> single_char_token(inp, ls1, "Invalid")
        ELSE LET ls1 == [ls EXCEPT !.exhausted = TRUE]
             IN  [tok |-> Token("Eof", <<>>, ls1), ls |-> ls1]

\* Lexer_next without the `if self.exhausted` test
Lexer_next_ignoring_exhausted(inp, ls) ==
    LET r == next_token(inp, ls) IN [some |-> TRUE, tok |-> r.tok, ls |-> r.ls]

\* impl Iterator for Lexer: next() is None once exhausted, else Some(next_token())
Lexer_next(inp, ls) ==
    IF ls.exhausted
    THEN [some |-> FALSE, ls |-> ls]
    ELSE LET r == next_token(inp, ls) IN [some |-> TRUE, tok |-> r.tok, ls |-> r.ls]

\* every item a Lexer over inp yields, in order (what Peekable<Lexer> hands the parser)
RECURSIVE Lexer_items(_, _)
Lexer_items(inp, ls) ==
    LET r == Lexer_next(inp, ls)
    IN  IF r.some THEN <<r.tok>> \o Lexer_items(inp, r.ls) ELSE <<>>


(***************************************************************************)
(* src/parser.rs: JsonData.  A String is a sequence of characters; a Vec   *)
(* is a sequence; a HashMap<String, JsonData> is a function from the set   *)
(* of its keys.                                                            *)
(*                                                                         *)
(* An i64 is kept as its canonical decimal numeral [neg, mag] (mag has no  *)
(* leading zero, zero is not negative), so that the 64-bit range is exact. *)
(* An f64 is kept as the canonical decimal [neg, ip, frac] of the literal  *)
(* (ip without leading zeros, frac without trailing zeros, zero not        *)
(* negative: -0.0 == 0.0 under PartialEq).  Literals of up to 15           *)
(* significant digits denote distinct f64 values iff their canonical       *)
(* decimals differ, and Display prints such a value as that decimal.       *)
(***************************************************************************)
Eof == [type |-> "Eof"]
Null == [type |-> "Null"]
Bool(b) == [type |-> "Bool", b |-> b]
Str(s) == [type |-> "Str", s |-> s]
Float(f) == [type |-> "Float", f |-> f]
Integer(i) == [type |-> "Integer", i |-> i]
Array(v) == [type |-> "Array", a |-> v]
Object(m) == [type |-> "Object", m |-> m]

DigitOrder == <<"0", "1", "2", "3", "4", "5", "6", "7", "8", "9">>
DigitVal(c) == (CHOOSE k \in 1..10 : DigitOrder[k] = c) - 1

\* i64::MAX = 9223372036854775807 and the magnitude of i64::MIN
I64_MAX_MAG == <<"9","2","2","3","3","7","2","0","3","6","8","5","4","7","7","5","8","0","7">>
I64_MIN_MAG == <<"9","2","2","3","3","7","2","0","3","6","8","5","4","7","7","5","8","0","8">>

RECURSIVE strip_leading_zeros(_)
strip_leading_zeros(ds) ==
    IF Len(ds) > 1 /\ ds[1] = "0" THEN strip_leading_zeros(Tail(ds)) ELSE ds

RECURSIVE strip_trailing_zeros(_)
strip_trailing_zeros(ds) ==
    IF Len(ds) > 0 /\ ds[Len(ds)] = "0"
    THEN strip_trailing_zeros(SubSeq(ds, 1, Len(ds) - 1))
    ELSE ds

\* a <= b for canonical magnitudes (digit sequences without leading zeros)
RECURSIVE MagLeq(_, _)
MagLeq(a, b) ==
    IF Len(a) # Len(b) THEN Len(a) < Len(b)
    ELSE IF a = <<>> THEN TRUE
    ELSE IF a[1] # b[1] THEN DigitVal(a[1]) < DigitVal(b[1])
    ELSE MagLeq(Tail(a), Tail(b))

AllDigits(ds) == Len(ds) > 0 /\ \A k \in 1..Len(ds) : ds[k] \in Digits

\* str::parse::<i64> without the range check
parse_i64_unchecked(text) ==
    LET neg == Len(text) > 0 /\ text[1] = "-"
        ds == IF neg THEN Tail(text) ELSE text
        mag == strip_leading_zeros(ds)
    IN  IF AllDigits(ds)
        THEN [ok |-> TRUE, v |-> [neg |-> neg /\ mag # <<"0">>, mag |-> mag]]
        ELSE [ok |-> FALSE]

\* str::parse::<i64>
parse_i64(text) ==
    LET neg == Len(text) > 0 /\ text[1] = "-"
        ds == IF neg THEN Tail(text) ELSE text
        mag == strip_leading_zeros(ds)
    IN  IF AllDigits(ds) /\ MagLeq(mag, IF neg THEN I64_MIN_MAG ELSE I64_MAX_MAG)
        THEN [ok |-> TRUE, v |-> [neg |-> neg /\ mag # <<"0">>, mag |-> mag]]
        ELSE [ok |-> FALSE]

DotPositions(text) == {k \in 1..Len(text) : text[k] = "."}

\* str::parse::<f64>, on the texts a Float token can carry ('-'? digits and dots)
parse_f64(text) ==
    LET neg == Len(text) > 0 /\ text[1] = "-"
        body == IF neg THEN Tail(text) ELSE text
        dots == DotPositions(body)
        dot == CHOOSE k \in dots : TRUE
        ipart == SubSeq(body, 1, dot - 1)
        fpart == SubSeq(body, dot + 1, Len(body))
        ip == strip_leading_zeros(ipart)
        frac == strip_trailing_zeros(fpart)
    IN  IF Cardinality(dots) = 1 /\ AllDigits(ipart \o fpart)
        THEN [ok |-> TRUE,
              v |-> [neg |-> neg /\ ~(ip = <<"0">> /\ frac = <<>>), ip |-> ip, frac |-> frac]]
        ELSE [ok |-> FALSE]

\* impl Display for i64 / f64
i64_to_string(i) == (IF i.neg THEN <<"-">> ELSE <<>>) \o i.mag
f64_to_string(f) ==
    (IF f.neg THEN <<"-">> ELSE <<>>) \o f.ip
        \o (IF f.frac = <<>> THEN <<>> ELSE <<".">> \o f.frac)

(***************************************************************************)
(* src/parser.rs: the parser.  Peekable<Lexer> is the sequence toks of the *)
(* Lexer's items with the index i of the next item: peek() is toks[i], or  *)
(* None past the end; next() advances i.  A Result is                      *)
(*   [ok |-> TRUE, data, i]   or   [ok |-> FALSE, err, i]                  *)
(* with i the position the Peekable is left at.                            *)
(***************************************************************************)
HasTok(toks, i) == i <= Len(toks)
Advance(toks, i) == IF HasTok(toks, i) THEN i + 1 ELSE i

Ok(d, i) == [ok |-> TRUE, data |-> d, i |-> i]
Err(e, i) == [ok |-> FALSE, err |-> e, i |-> i]
SyntaxError(tok) == [kind |-> "SyntaxError", token |-> tok]
UnexpectedEof == [kind |-> "UnexpectedEof"]

\* escape resolution: backslash-backslash and backslash-quote become the second character,
\* every other character is kept
RECURSIVE Unescape(_)
Unescape(s) ==
    IF s = <<>> THEN <<>>
    ELSE IF Len(s) >= 2 /\ s[1] = BACKSLASH /\ s[2] \in {BACKSLASH, QUOTE}
    THEN <<s[2]>> \o Unescape(SubSeq(s, 3, Len(s)))
    ELSE <<s[1]>> \o Unescape(Tail(s))

\* remove_surrounding_quotes resolving the escapes of what is between the quotes
remove_surrounding_quotes_resolving(text) == Unescape(SubSeq(text, 2, Len(text) - 1))

remove_surrounding_quotes(text) == SubSeq(text, 2, Len(text) - 1)

\* is_next_valid accepting whatever token follows
is_next_valid_any(toks, i, current, is_in) ==
    IF HasTok(toks, i) THEN Ok(current, i) ELSE Err(UnexpectedEof, i)

\* is_next_valid accepting the end of the token stream
is_next_valid_at_end(toks, i, current, is_in) ==
    IF HasTok(toks, i)
    THEN LET kind == toks[i].kind
         IN  IF \/ (kind = "Comma" /\ (is_in = "Array" \/ is_in = "Object"))
                \/ (kind = "CloseBracket" /\ is_in = "Array")
                \/ (kind = "CloseCurly" /\ is_in = "Object")
                \/ (kind = "Eof" /\ is_in = "Nothing")
             THEN Ok(current, i)
             ELSE Err(SyntaxError(toks[i]), i)
    ELSE Ok(current, i)

is_next_valid(toks, i, current, is_in) ==
    IF HasTok(toks, i)
    THEN LET kind == toks[i].kind
         IN  IF \/ (kind = "Comma" /\ (is_in = "Array" \/ is_in = "Object"))
                \/ (kind = "CloseBracket" /\ is_in = "Array")
                \/ (kind = "CloseCurly" /\ is_in = "Object")
                \/ (kind = "Eof" /\ is_in = "Nothing")
             THEN Ok(current, i)
             ELSE Err(SyntaxError(toks[i]), i)
    ELSE Err(UnexpectedEof, i)

parse_json_eof(toks, i, is_in) == Ok(Eof, Advance(toks, i))
parse_json_null(toks, i, is_in) == is_next_valid(toks, Advance(toks, i), Null, is_in)
parse_json_false(toks, i, is_in) == is_next_valid(toks, Advance(toks, i), Bool(FALSE), is_in)
parse_json_true(toks, i, is_in) == is_next_valid(toks, Advance(toks, i), Bool(TRUE), is_in)

parse_json_str(toks, i, is_in) ==
    is_next_valid(toks, Advance(toks, i), Str(remove_surrounding_quotes(toks[i].text)), is_in)

parse_json_float(toks, i, is_in) ==
    LET f == parse_f64(toks[i].text)
    IN  IF f.ok
        THEN is_next_valid(toks, Advance(toks, i), Float(f.v), is_in)
        ELSE Err(SyntaxError(toks[i]), Advance(toks, i))

\* parse_json_integer returning the error of is_next_valid as it is
parse_json_integer_reporting_follower(toks, i, is_in) ==
    LET n == parse_i64(toks[i].text)
    IN  IF n.ok
        THEN is_next_valid(toks, Advance(toks, i), Integer(n.v), is_in)
        ELSE Err(SyntaxError(toks[i]), Advance(toks, i))

parse_json_integer(toks, i, is_in) ==
    LET n == parse_i64(toks[i].text)
    IN  IF n.ok
        THEN LET next == is_next_valid(toks, Advance(toks, i), Integer(n.v), is_in)
             IN  IF ~next.ok THEN Err(SyntaxError(toks[i]), next.i) ELSE next
        ELSE Err(SyntaxError(toks[i]), Advance(toks, i))

\* HashMap::insert keeping the value a key already has
insert_keeping_first(map, key, e) ==
    [k \in DOMAIN map \cup {key} |-> IF k \in DOMAIN map THEN map[k] ELSE e]

\* HashMap::insert
insert(map, key, e) == [k \in DOMAIN map \cup {key} |-> IF k = key THEN e ELSE map[k]]

RECURSIVE eat(_, _, _)
RECURSIVE array_loop(_, _, _, _)
RECURSIVE object_loop(_, _, _, _, _, _)

\* the loop of parse_json_array adding a Null element for every Comma
RECURSIVE array_loop_comma_as_null(_, _, _, _)
array_loop_comma_as_null(toks, i, arr, is_in) ==
    IF ~HasTok(toks, i) THEN is_next_valid(toks, i, Array(arr), is_in)
    ELSE CASE toks[i].kind = "CloseBracket" ->
                is_next_valid(toks, Advance(toks, i), Array(arr), is_in)
           [] toks[i].kind = "Comma" ->
                array_loop_comma_as_null(toks, Advance(toks, i), Append(arr, Null), is_in)
           [] OTHER ->
                LET elem == eat(toks, i, "Array")
                IN  IF elem.ok
                    THEN array_loop_comma_as_null(toks, elem.i, Append(arr, elem.data), is_in)
                    ELSE elem

\* the `while let Some(token) = lexer.peek()` loop of parse_json_array and what follows it
array_loop(toks, i, arr, is_in) ==
    IF ~HasTok(toks, i) THEN is_next_valid(toks, i, Array(arr), is_in)
    ELSE CASE toks[i].kind = "CloseBracket" ->
                is_next_valid(toks, Advance(toks, i), Array(arr), is_in)
           [] toks[i].kind = "Comma" -> array_loop(toks, Advance(toks, i), arr, is_in)
           [] OTHER ->
                LET elem == eat(toks, i, "Array")
                IN  IF elem.ok THEN array_loop(toks, elem.i, Append(arr, elem.data), is_in)
                    ELSE elem

parse_json_array(toks, i, is_in) == array_loop(toks, Advance(toks, i), <<>>, is_in)

\* the loop of parse_json_object parsing a value wherever one starts, a key expected or not
RECURSIVE object_loop_values_anywhere(_, _, _, _, _, _)
object_loop_values_anywhere(toks, i, map, is_key, key, is_in) ==
    IF ~HasTok(toks, i) THEN is_next_valid(toks, i, Object(map), is_in)
    ELSE CASE toks[i].kind = "CloseCurly" ->
                is_next_valid(toks, Advance(toks, i), Object(map), is_in)
           [] toks[i].kind = "Comma" ->
                IF is_key THEN Err(SyntaxError(toks[i]), i)
                ELSE object_loop_values_anywhere(toks, Advance(toks, i), map, TRUE, key, is_in)
           [] toks[i].kind = "Colon" ->
                IF ~is_key THEN Err(SyntaxError(toks[i]), i)
                ELSE object_loop_values_anywhere(toks, Advance(toks, i), map, FALSE, key, is_in)
           [] toks[i].kind = "Str" /\ is_key ->
                object_loop_values_anywhere(toks, Advance(toks, i), map, is_key,
                                            remove_surrounding_quotes(toks[i].text), is_in)
           [] OTHER ->
                LET elem == IF toks[i].kind = "Str" THEN parse_json_str(toks, i, "Object")
                            ELSE eat(toks, i, "Object")
                IN  IF elem.ok
                    THEN object_loop_values_anywhere(toks, elem.i, insert(map, key, elem.data),
                                                     is_key, key, is_in)
                    ELSE elem

\* the `while let Some(token) = lexer.peek()` loop of parse_json_object and what follows it
object_loop(toks, i, map, is_key, key, is_in) ==
    IF ~HasTok(toks, i) THEN is_next_valid(toks, i, Object(map), is_in)
    ELSE CASE toks[i].kind = "CloseCurly" ->
                is_next_valid(toks, Advance(toks, i), Object(map), is_in)
           [] toks[i].kind = "Comma" ->
                IF is_key THEN Err(SyntaxError(toks[i]), i)
                ELSE object_loop(toks, Advance(toks, i), map, TRUE, key, is_in)
           [] toks[i].kind = "Colon" ->
                IF ~is_key THEN Err(SyntaxError(toks[i]), i)
                ELSE object_loop(toks, Advance(toks, i), map, FALSE, key, is_in)
           [] toks[i].kind = "Str" /\ is_key ->
                object_loop(toks, Advance(toks, i), map, is_key,
                            remove_surrounding_quotes(toks[i].text), is_in)
           [] OTHER ->
                LET elem == IF toks[i].kind = "Str" THEN parse_json_str(toks, i, "Object")
                            ELSE IF is_key THEN Err(SyntaxError(toks[i]), i)
                            ELSE eat(toks, i, "Object")
                IN  IF elem.ok
                    THEN object_loop(toks, elem.i, insert(map, key, elem.data), is_key, key, is_in)
                    ELSE elem

parse_json_object(toks, i, is_in) == object_loop(toks, Advance(toks, i), <<>>, TRUE, <<>>, is_in)

eat(toks, i, is_in) ==
    IF HasTok(toks, i)
    THEN CASE toks[i].kind \in {"CloseBracket", "Comma", "Colon", "CloseCurly", "Invalid"} ->
                Err(SyntaxError(toks[i]), i)
           [] toks[i].kind = "OpenCurly" -> parse_json_object(toks, i, is_in)
           [] toks[i].kind = "OpenBracket" -> parse_json_array(toks, i, is_in)
           [] toks[i].kind = "Integer" -> parse_json_integer(toks, i, is_in)
           [] toks[i].kind = "Float" -> parse_json_float(toks, i, is_in)
           [] toks[i].kind = "Str" -> parse_json_str(toks, i, is_in)
           [] toks[i].kind = "Null" -> parse_json_null(toks, i, is_in)
           [] toks[i].kind = "True" -> parse_json_true(toks, i, is_in)
           [] toks[i].kind = "False" -> parse_json_false(toks, i, is_in)
           [] toks[i].kind = "Eof" -> parse_json_eof(toks, i, is_in)
    ELSE parse_json_eof(toks, i, is_in)

parse_json(inp) == eat(Lexer_items(inp, Lexer_new), 1, "Nothing")


(***************************************************************************)
(* src/parser.rs: impl Display for ParseError.                             *)
(***************************************************************************)
\* impl Display for usize
RECURSIVE usize_to_string(_)
usize_to_string(n) ==
    IF n < 10 THEN <<DigitOrder[n + 1]>>
    ELSE usize_to_string(n \div 10) \o <<DigitOrder[(n % 10) + 1]>>

\* str::repeat
repeat(c, n) == [k \in 1..n |-> c]

\* the grave accent (U+0060), a character that a TLA+ string cannot hold
BACKTICK == "U+0060"

\* "Invalid Json Syntax" and "Unexpected end of file"
MSG ==
    <<"I", "n", "v", "a", "l", "i", "d", " ", "J", "s", "o", "n", " ", "S", "y", "n", "t", "a", "x">>
UNEXPECTED_EOF_TEXT ==
    <<"U", "n", "e", "x", "p", "e", "c", "t", "e", "d", " ", "e", "n", "d", " ", "o", "f", " ", "f", "i", "l", "e">>

\* the SyntaxError arm writing one caret whatever the length of the lexeme
ParseError_to_string_one_caret(e) ==
    IF e.kind = "SyntaxError"
    THEN MSG \o <<" ", BACKTICK>> \o e.token.text \o <<BACKTICK, " ", "a", "t", " ">>
            \o usize_to_string(e.token.loc.row) \o <<":">> \o usize_to_string(e.token.loc.col)
            \o <<NEWLINE>> \o repeat(" ", Len(MSG) + 2) \o repeat("^", 1)
    ELSE UNEXPECTED_EOF_TEXT

\* format!("{}", error)
ParseError_to_string(e) ==
    IF e.kind = "SyntaxError"
    THEN MSG \o <<" ", BACKTICK>> \o e.token.text \o <<BACKTICK, " ", "a", "t", " ">>
            \o usize_to_string(e.token.loc.row) \o <<":">> \o usize_to_string(e.token.loc.col)
            \o <<NEWLINE>> \o repeat(" ", Len(MSG) + 2) \o repeat("^", Len(e.token.text))
    ELSE UNEXPECTED_EOF_TEXT

(***************************************************************************)
(* src/parser.rs: impl Display for JsonData.  A HashMap iterates in an     *)
(* unspecified order, so to_string has a set of possible outputs: one per  *)
(* iteration order of every Object in the value.                           *)
(***************************************************************************)
\* the possible iteration orders of a HashMap with these keys
Orders(keys) ==
    {o \in [1..Cardinality(keys) -> keys] : \A x, y \in DOMAIN o : x # y => o[x] # o[y]}

RECURSIVE Display(_)
RECURSIVE array_body(_)
RECURSIVE object_body(_, _)

\* "{v0}, {v1}, ... {vn}]" of a non-empty Vec
array_body(v) ==
    IF Len(v) = 1
    THEN {x \o <<"]">> : x \in Display(v[1])}
    ELSE {x \o <<",", " ">> \o y : x \in Display(v[1]), y \in array_body(Tail(v))}

\* the lines written for the entries of a non-empty HashMap, visited in the order o
object_body(m, o) ==
    LET entry == {<<QUOTE>> \o o[1] \o <<QUOTE, " ", ":", " ">> \o x : x \in Display(m[o[1]])}
    IN  IF Len(o) = 1
        THEN {e \o <<NEWLINE, "}">> : e \in entry}
        ELSE {e \o <<",", NEWLINE>> \o y : e \in entry, y \in object_body(m, Tail(o))}

Display(d) ==
    CASE d.type = "Eof" -> {<<>>}
      [] d.type = "Null" -> {<<"n", "u", "l", "l">>}
      [] d.type = "Bool" -> {IF d.b THEN <<"t", "r", "u", "e">> ELSE <<"f", "a", "l", "s", "e">>}
      [] d.type = "Str" -> {<<QUOTE>> \o d.s \o <<QUOTE>>}
      [] d.type = "Float" -> {f64_to_string(d.f)}
      [] d.type = "Integer" -> {i64_to_string(d.i)}
      [] d.type = "Array" ->
            IF d.a = <<>> THEN {<<"[", "]">>}
            ELSE {<<"[">> \o x : x \in array_body(d.a)}
      [] d.type = "Object" ->
            IF DOMAIN d.m = {} THEN {<<"{", "}">>}
            ELSE UNION {{<<"{", NEWLINE>> \o x : x \in object_body(d.m, o)} :
                        o \in Orders(DOMAIN d.m)}

(***************************************************************************)
(* src/json.rs: Json<S>, a JsonData behind an Rc with a phantom shape tag  *)
(* S.  A handle is [tag, data]; a Result is [ok |-> TRUE, json] or         *)
(* [ok |-> FALSE, err].                                                    *)
(***************************************************************************)
JsonState == {"Object", "Array", "Value"}

Json(S, data) == [tag |-> S, data |-> data]
JsonOk(j) == [ok |-> TRUE, json |-> j]
JsonErr(e) == [ok |-> FALSE, err |-> e]

IncorrectType == [kind |-> "IncorrectType"]
KeyNotFound == [kind |-> "KeyNotFound"]
IndexNotFound == [kind |-> "IndexNotFound"]
InvalidJsonSyntax(e) == [kind |-> "InvalidJsonSyntax", error |-> e]

\* Json::<S>::new
Json_new(inp, S) ==
    LET parsed == parse_json(inp)
    IN  IF parsed.ok THEN JsonOk(Json(S, parsed.data))
        ELSE JsonErr(InvalidJsonSyntax(ParseError_to_string(parsed.err)))

\* create_json_of_type!(data, T1, T2, ...): a handle tagged S if data is one of the variants
create_json_of_type(data, types, S) ==
    IF data.type \in types THEN JsonOk(Json(S, data)) ELSE JsonErr(IncorrectType)

\* get_from_json_object!(self, key, data, { create_json_of_type!(data, ...) })
get_from_json_object(self, key, types, S) ==
    IF self.data.type = "Object"
    THEN IF key \in DOMAIN self.data.m
         THEN create_json_of_type(self.data.m[key], types, S)
         ELSE JsonErr(KeyNotFound)
    ELSE JsonErr(IncorrectType)

\* impl Json<Object>
Object_get_object(self, key) == get_from_json_object(self, key, {"Object"}, "Object")
Object_get_array(self, key) == get_from_json_object(self, key, {"Array"}, "Array")
\* get_value not accepting Null
Object_get_value_without_null(self, key) ==
    get_from_json_object(self, key, {"Integer", "Float", "Bool", "Str"}, "Value")

Object_get_value(self, key) ==
    get_from_json_object(self, key, {"Integer", "Null", "Float", "Bool", "Str"}, "Value")

\* Result<T, JsonError>::Ok of a plain value (bool, usize, &String, f64, i64)
ValOk(v) == [ok |-> TRUE, val |-> v]

\* get_from_json_array! taking the index as 1-based: the last element is out of bounds
get_from_json_array_one_based(self, index, types, S) ==
    IF self.data.type = "Array"
    THEN IF 0 < index /\ index <= Len(self.data.a)
         THEN create_json_of_type(self.data.a[index], types, S)
         ELSE JsonErr(IndexNotFound)
    ELSE JsonErr(IncorrectType)

\* get_from_json_array!(self, index, data, { create_json_of_type!(data, ...) }); Vec::get
\* takes a 0-based index
get_from_json_array(self, index, types, S) ==
    IF self.data.type = "Array"
    THEN IF index < Len(self.data.a)
         THEN create_json_of_type(self.data.a[index + 1], types, S)
         ELSE JsonErr(IndexNotFound)
    ELSE JsonErr(IncorrectType)

\* impl Json<Array>
Array_is_empty(self) ==
    IF self.data.type = "Array" THEN ValOk(self.data.a = <<>>) ELSE JsonErr(IncorrectType)
Array_len(self) ==
    IF self.data.type = "Array" THEN ValOk(Len(self.data.a)) ELSE JsonErr(IncorrectType)
Array_get_object(self, index) == get_from_json_array(self, index, {"Object"}, "Object")
Array_get_array(self, index) == get_from_json_array(self, index, {"Array"}, "Array")
Array_get_value(self, index) ==
    get_from_json_array(self, index, {"Integer", "Float", "Bool", "Str", "Null"}, "Value")

\* impl Json<Value>
is_null(self) == self.data = Null
is_eof(self) == self.data = Eof
\* get_bool taking every node that is not a Bool for false
get_bool_defaulting(self) ==
    IF self.data.type = "Bool" THEN ValOk(self.data.b) ELSE ValOk(FALSE)
get_bool(self) ==
    IF self.data.type = "Bool" THEN ValOk(self.data.b) ELSE JsonErr(IncorrectType)
get_string(self) ==
    IF self.data.type = "Str" THEN ValOk(self.data.s) ELSE JsonErr(IncorrectType)
get_f64(self) ==
    IF self.data.type = "Float" THEN ValOk(self.data.f) ELSE JsonErr(IncorrectType)
get_i64(self) ==
    IF self.data.type = "Integer" THEN ValOk(self.data.i) ELSE JsonErr(IncorrectType)


(***************************************************************************)
(* src/lib.rs: the character-cursor Lexer.  Its state is the record         *)
(*   [cursor, input]                                                       *)
(* with cursor the 0-based index into input; the result of parse_str is    *)
(*   [panic |-> FALSE, s, cursor]   or   [panic |-> TRUE]                  *)
(* with s the String of the JsonData::Str returned and cursor the cursor   *)
(* the Lexer is left with.                                                 *)
(***************************************************************************)
\* str::trim
RECURSIVE str_trim(_)
str_trim(t) ==
    IF t # <<>> /\ is_whitespace(t[1]) THEN str_trim(Tail(t))
    ELSE IF t # <<>> /\ is_whitespace(t[Len(t)]) THEN str_trim(SubSeq(t, 1, Len(t) - 1))
    ELSE t

lib_Lexer_new(text) == [cursor |-> 0, input |-> str_trim(text)]

\* Lexer::equal: the characters of s are in the input from the cursor on
lib_equal(self, s) ==
    /\ self.cursor + Len(s) <= Len(self.input)
    /\ SubSeq(self.input, self.cursor + 1, self.cursor + Len(s)) = s

Panic == [panic |-> TRUE]

\* the loop of parse_str pushing one backslash for two
RECURSIVE lib_str_loop_resolving(_, _, _)
lib_str_loop_resolving(self, str, n) ==
    IF n = 0 THEN [panic |-> FALSE, s |-> str, cursor |-> self.cursor]
    ELSE IF self.cursor >= Len(self.input) THEN Panic
    ELSE LET c == self.input[self.cursor + 1]
         IN  IF c # QUOTE
             THEN IF lib_equal(self, <<BACKSLASH, BACKSLASH>>)
                  THEN lib_str_loop_resolving([self EXCEPT !.cursor = @ + 2],
                                              str \o <<BACKSLASH>>, n - 1)
                  ELSE IF lib_equal(self, <<BACKSLASH, QUOTE>>)
                  THEN lib_str_loop_resolving([self EXCEPT !.cursor = @ + 2],
                                              Append(str, QUOTE), n - 1)
                  ELSE lib_str_loop_resolving([self EXCEPT !.cursor = @ + 1],
                                              Append(str, c), n - 1)
             ELSE [panic |-> FALSE, s |-> str, cursor |-> self.cursor + 1]

lib_parse_str_resolving(self) ==
    IF self.cursor >= Len(self.input) \/ self.input[self.cursor + 1] # QUOTE THEN Panic
    ELSE lib_str_loop_resolving([self EXCEPT !.cursor = @ + 1], <<>>,
                                Len(self.input) - (self.cursor + 1))

\* `for _ in self.cursor..self.input.len()` of parse_str, n iterations left; self.peek()
\* indexes the input at the cursor and panics past its end
RECURSIVE lib_str_loop(_, _, _)
lib_str_loop(self, str, n) ==
    IF n = 0 THEN [panic |-> FALSE, s |-> str, cursor |-> self.cursor]
    ELSE IF self.cursor >= Len(self.input) THEN Panic
    ELSE LET c == self.input[self.cursor + 1]
         IN  IF c # QUOTE
             THEN IF lib_equal(self, <<BACKSLASH, BACKSLASH>>)
                  THEN lib_str_loop([self EXCEPT !.cursor = @ + 2],
                                    str \o <<BACKSLASH, BACKSLASH>>, n - 1)
                  ELSE IF lib_equal(self, <<BACKSLASH, QUOTE>>)
                  THEN lib_str_loop([self EXCEPT !.cursor = @ + 2], Append(str, QUOTE), n - 1)
                  ELSE lib_str_loop([self EXCEPT !.cursor = @ + 1], Append(str, c), n - 1)
             ELSE [panic |-> FALSE, s |-> str, cursor |-> self.cursor + 1]

\* Lexer::parse_str; assert_eq!(self.peek(), '"') panics on another character and on
\* an empty input
lib_parse_str(self) ==
    IF self.cursor >= Len(self.input) \/ self.input[self.cursor + 1] # QUOTE THEN Panic
    ELSE lib_str_loop([self EXCEPT !.cursor = @ + 1], <<>>,
                      Len(self.input) - (self.cursor + 1))

(***************************************************************************)
(* The inputs of the model.  A set of texts is the set of concatenations   *)
(* of at most n pieces; a piece is a character or a short lexeme.          *)
(***************************************************************************)
RECURSIVE Flatten(_)
Flatten(ps) == IF ps = <<>> THEN <<>> ELSE Head(ps) \o Flatten(Tail(ps))

\* the sequences of at most n pieces of P
PieceSeqs(P, n) == UNION {[1..k -> P] : k \in 0..n}

NULL_TEXT == <<"n", "u", "l", "l">>
TRUE_TEXT == <<"t", "r", "u", "e">>
FALSE_TEXT == <<"f", "a", "l", "s", "e">>
STR_EMPTY == <<QUOTE, QUOTE>>                       \* ""
STR_A == <<QUOTE, "a", QUOTE>>                      \* "a"
STR_B == <<QUOTE, "b", QUOTE>>                      \* "b"
STR_ESC_QUOTE == <<QUOTE, BACKSLASH, QUOTE, QUOTE>> \* "\""
STR_ESC_BACKSLASH == <<QUOTE, "a", BACKSLASH, BACKSLASH, QUOTE>> \* "a\\"
STR_ESC_N == <<QUOTE, BACKSLASH, "n", QUOTE>>       \* "\n", backslash and n
STR_ESC_MIXED == <<QUOTE, "a", BACKSLASH, QUOTE, "b", QUOTE>> \* "a\"b"

\* the texts the Lexer is stepped over: the concatenations of at most MaxLexPieces of
LexPieces ==
    { <<"{">>, <<QUOTE>>, <<BACKSLASH>>, <<BACKSLASH, QUOTE>>,
      <<"-">>, <<".">>, <<".", "5">>, <<"1">>, <<" ">>, <<NEWLINE>>,
      <<"n", "u", "l">>, <<"l">>, <<"t", "r", "u">>, <<"e">>, <<"f", "a", "l", "s">> }

\* the texts handed to parse_json and Json::new: the concatenations of at most MaxPieces
\* of Pieces (every short sequence of lexemes), of at most MaxNumPieces of NumPieces
\* (numbers), of at most MaxStrPieces of StrPieces (string literals), of at most
\* MaxIntPieces of IntPieces (integers at the ends of the i64 range), whitespace, string
\* literals between whitespace, the one- and two-entry objects and arrays over a set of
\* values, and arrays with commas in every place
Pieces ==
    { <<"{">>, <<"}">>, <<"[">>, <<"]">>, <<",">>, <<":">>, <<"0">>, <<"-">>, NULL_TEXT,
      STR_A }
NumPieces == {<<"0">>, <<"1", ".", "5">>, <<"-">>, <<".">>, <<" ">>}
\* the pieces of integer literals around i64::MAX and i64::MIN: the first 18 digits of
\* 9223372036854775807, last digits, a zero and the sign
IntPieces ==
    { <<"9","2","2","3","3","7","2","0","3","6","8","5","4","7","7","5","8","0">>,
      <<"7">>, <<"8">>, <<"9">>, <<"0">>, <<"-">> }
StrPieces == {<<QUOTE>>, <<BACKSLASH>>, <<"a">>, <<" ">>}
\* the pieces of the texts handed to the Lexer of lib.rs
LibPieces ==
    {<<QUOTE>>, <<BACKSLASH, QUOTE>>, <<BACKSLASH, BACKSLASH>>, <<BACKSLASH>>, <<"a">>, <<" ">>}
Whitespace == {<<>>, <<" ">>, <<NEWLINE>>, <<"\t", "\r">>, <<" ", NEWLINE>>}
WsTexts == Whitespace
Literals == {STR_EMPTY, STR_A, STR_ESC_QUOTE, STR_ESC_BACKSLASH, STR_ESC_N, STR_ESC_MIXED}
LitTexts == {v \o l \o w : v \in Whitespace, l \in Literals, w \in Whitespace}
ValTexts ==
    { <<"0">>, <<"-", "1">>, <<"1", ".", "5">>, <<"1", ".", "0">>, NULL_TEXT, TRUE_TEXT,
      FALSE_TEXT, STR_A, STR_ESC_QUOTE, STR_ESC_BACKSLASH, <<"[", "]">>, <<"{", "}">>,
      <<"[", "0", "]">>, <<"{">> \o STR_A \o <<":", "0", "}">> }
KeyTexts == {STR_A, STR_B, STR_ESC_QUOTE}
Entries == {k \o <<":">> \o v : k \in KeyTexts, v \in ValTexts}
ObjTexts ==
    {<<"{">> \o e \o <<"}">> : e \in Entries}
        \cup {<<"{">> \o e \o <<",">> \o f \o <<"}">> : e \in Entries, f \in Entries}
ArrTexts ==
    {<<"[">> \o v \o <<"]">> : v \in ValTexts}
        \cup {<<"[">> \o v \o <<",", " ">> \o w \o <<"]">> : v \in ValTexts, w \in ValTexts}
\* arrays with leading, repeated and trailing commas
CommaTexts ==
    { <<"[", ",", "0", ",", ",">> \o NULL_TEXT \o <<",", "]">>,
      <<"[", ",", ",", "[", ",", "0", "]", ",">> \o STR_A \o <<"]">>,
      <<"[", "0", " ", "0", "]">>,
      <<"[", "[", "]", "[", "]", "]">> }
Texts == WsTexts \cup LitTexts \cup ObjTexts \cup ArrTexts \cup CommaTexts

\* the keys and the shapes the accessors are called with
Keys == {<<"a">>, <<"b">>, <<BACKSLASH, QUOTE>>, <<QUOTE>>}
\* the indices the accessors of Json<Array> are called with
Indices == 0..MaxIndex

\* the JsonData values handed to Display
I64(neg, mag) == [neg |-> neg, mag |-> mag]
F64(neg, ip, frac) == [neg |-> neg, ip |-> ip, frac |-> frac]
Leaves ==
    { Eof, Null, Bool(TRUE), Bool(FALSE), Integer(I64(FALSE, <<"0">>)),
      Integer(I64(TRUE, <<"1">>)), Float(F64(FALSE, <<"1">>, <<"5">>)),
      Float(F64(FALSE, <<"1">>, <<>>)), Float(F64(TRUE, <<"0">>, <<"2", "5">>)),
      Str(<<>>), Str(<<"a">>), Str(<<QUOTE>>), Str(<<BACKSLASH>>) }
DocKeys == {<<"a">>, <<"b">>, <<QUOTE>>}
SeqsUpTo(S, n) == UNION {[1..k -> S] : k \in 0..n}
MapsOver(K, S) == UNION {[ks -> S] : ks \in {x \in SUBSET K : Cardinality(x) <= MaxWidth}}
Collections(S) ==
    {Array(v) : v \in SeqsUpTo(S, MaxWidth)} \cup {Object(m) : m \in MapsOver(DocKeys, S)}
Inner ==
    { Null, Integer(I64(FALSE, <<"0">>)), Str(<<"a">>), Array(<<>>), Object(<<>>),
      Array(<<Null>>), Array(<<Eof>>), Object([k \in {<<"a">>} |-> Bool(TRUE)]) }
Docs == Leaves \cup Collections(Leaves) \cup Collections(Inner)

(***************************************************************************)
(* The state machine.                                                      *)
(***************************************************************************)
NoDoc == [none |-> "doc"]
NoResult == [none |-> "result"]
NoJson == [none |-> "json"]
NoCall == [op |-> "none"]
NoRet == [none |-> "ret"]
NoPull == [ret |-> "Start", pos |-> 0, exhausted |-> FALSE]

\* the tokens a parse pulled from its Peekable<Lexer>: all up to the one it was left at
Pulled(toks, i) == SubSeq(toks, 1, IF i <= Len(toks) THEN i ELSE Len(toks))

\* nothing done yet with the input (a text given, or the text just rendered from doc)
Fresh ==
    /\ result = NoResult /\ json = NoJson /\ last = NoPull
    /\ call = IF doc = NoDoc THEN NoCall ELSE [op |-> "to_string"]

\* Lexer::new(input.chars()), nothing pulled yet
InitLexer ==
    /\ \E ps \in PieceSeqs(LexPieces, MaxLexPieces) : input = Flatten(ps)
    /\ lexer = Lexer_new
    /\ tokens = <<>>
    /\ last = NoPull
    /\ doc = NoDoc /\ result = NoResult /\ json = NoJson /\ fresh = NoJson
    /\ call = NoCall /\ ret = NoRet

\* a text, not yet parsed
Init ==
    /\ \/ \E ps \in PieceSeqs(Pieces, MaxPieces) : input = Flatten(ps)
       \/ \E ps \in PieceSeqs(NumPieces, MaxNumPieces) : input = Flatten(ps)
       \/ \E ps \in PieceSeqs(StrPieces, MaxStrPieces) : input = Flatten(ps)
       \/ \E ps \in PieceSeqs(IntPieces, MaxIntPieces) : input = Flatten(ps)
       \/ input \in Texts
    /\ lexer = Lexer_new
    /\ tokens = <<>>
    /\ last = NoPull
    /\ doc = NoDoc /\ result = NoResult /\ json = NoJson /\ fresh = NoJson
    /\ call = NoCall /\ ret = NoRet

\* a JsonData value, not yet rendered
InitRender ==
    /\ doc \in Docs
    /\ input = <<>>
    /\ lexer = Lexer_new
    /\ tokens = <<>>
    /\ last = NoPull
    /\ result = NoResult /\ json = NoJson /\ fresh = NoJson /\ call = NoCall /\ ret = NoRet

\* a text, not yet handed to the Lexer of lib.rs
InitLib ==
    /\ \E ps \in PieceSeqs(LibPieces, MaxLibPieces) : input = Flatten(ps)
    /\ lexer = Lexer_new
    /\ tokens = <<>>
    /\ last = NoPull
    /\ doc = NoDoc /\ result = NoResult /\ json = NoJson /\ fresh = NoJson
    /\ call = NoCall /\ ret = NoRet

\* Iterator::next on the Lexer
Pull ==
    LET r == Lexer_next(input, lexer)
    IN  /\ doc = NoDoc /\ result = NoResult /\ json = NoJson
        /\ lexer' = r.ls
        /\ tokens' = IF r.some THEN Append(tokens, r.tok) ELSE tokens
        /\ last' = [ret |-> IF r.some THEN "Some" ELSE "None",
                     pos |-> lexer.pos, exhausted |-> lexer.exhausted]
        /\ UNCHANGED <<input, doc, result, json, fresh, call, ret>>

\* parse_json(input)
ParseJson ==
    /\ Fresh
    /\ LET toks == Lexer_items(input, Lexer_new)
           r == eat(toks, 1, "Nothing")
       IN  /\ result' = r
           /\ tokens' = Pulled(toks, r.i)
    /\ call' = [op |-> "parse_json"]
    /\ UNCHANGED <<input, lexer, last, doc, json, fresh, ret>>

\* d.to_string(), the text then being what is parsed
to_string ==
    /\ doc # NoDoc /\ call = NoCall
    /\ \E s \in Display(doc) : input' = s
    /\ call' = [op |-> "to_string"]
    /\ UNCHANGED <<lexer, tokens, last, doc, result, json, fresh, ret>>

\* Json::<S>::new(input)
JsonNew(S) ==
    /\ Fresh
    /\ doc = NoDoc
    /\ LET j == Json_new(input, S)
       IN  /\ ret' = j
           /\ json' = IF j.ok THEN j.json ELSE NoJson
           /\ fresh' = IF j.ok THEN j.json ELSE NoJson
    /\ call' = [op |-> "new", S |-> S]
    /\ UNCHANGED <<input, lexer, tokens, last, doc, result>>

\* json.get_object(key), json.get_array(key), json.get_value(key) on a Json<Object>
GetObject(key) ==
    /\ json # NoJson /\ json.tag = "Object"
    /\ ret' = Object_get_object(json, key)
    /\ call' = [op |-> "get_object", key |-> key]
    /\ UNCHANGED <<input, lexer, tokens, last, doc, result, json, fresh>>

GetArray(key) ==
    /\ json # NoJson /\ json.tag = "Object"
    /\ ret' = Object_get_array(json, key)
    /\ call' = [op |-> "get_array", key |-> key]
    /\ UNCHANGED <<input, lexer, tokens, last, doc, result, json, fresh>>

GetValue(key) ==
    /\ json # NoJson /\ json.tag = "Object"
    /\ ret' = Object_get_value(json, key)
    /\ call' = [op |-> "get_value", key |-> key]
    /\ UNCHANGED <<input, lexer, tokens, last, doc, result, json, fresh>>

\* json.get_object(index), json.get_array(index), json.get_value(index), json.len(),
\* json.is_empty() on a Json<Array>
ArrayGetObject(index) ==
    /\ json # NoJson /\ json.tag = "Array"
    /\ ret' = Array_get_object(json, index)
    /\ call' = [op |-> "Array.get_object", index |-> index]
    /\ UNCHANGED <<input, lexer, tokens, last, doc, result, json, fresh>>

ArrayGetArray(index) ==
    /\ json # NoJson /\ json.tag = "Array"
    /\ ret' = Array_get_array(json, index)
    /\ call' = [op |-> "Array.get_array", index |-> index]
    /\ UNCHANGED <<input, lexer, tokens, last, doc, result, json, fresh>>

ArrayGetValue(index) ==
    /\ json # NoJson /\ json.tag = "Array"
    /\ ret' = Array_get_value(json, index)
    /\ call' = [op |-> "Array.get_value", index |-> index]
    /\ UNCHANGED <<input, lexer, tokens, last, doc, result, json, fresh>>

ArrayLen ==
    /\ json # NoJson /\ json.tag = "Array"
    /\ ret' = Array_len(json)
    /\ call' = [op |-> "Array.len"]
    /\ UNCHANGED <<input, lexer, tokens, last, doc, result, json, fresh>>

ArrayIsEmpty ==
    /\ json # NoJson /\ json.tag = "Array"
    /\ ret' = Array_is_empty(json)
    /\ call' = [op |-> "Array.is_empty"]
    /\ UNCHANGED <<input, lexer, tokens, last, doc, result, json, fresh>>

\* json.get_bool(), json.get_string(), json.get_f64(), json.get_i64(), json.is_null(),
\* json.is_eof() on a Json<Value>
GetBool ==
    /\ json # NoJson /\ json.tag = "Value"
    /\ ret' = get_bool(json)
    /\ call' = [op |-> "get_bool"]
    /\ UNCHANGED <<input, lexer, tokens, last, doc, result, json, fresh>>

\* get_string moving the String out of the node (std::mem::take), not borrowing it
GetString_taking ==
    /\ json # NoJson /\ json.tag = "Value"
    /\ ret' = get_string(json)
    /\ json' = IF json.data.type = "Str" THEN Json("Value", Str(<<>>)) ELSE json
    /\ call' = [op |-> "get_string"]
    /\ UNCHANGED <<input, lexer, tokens, last, doc, result, fresh>>

GetString ==
    /\ json # NoJson /\ json.tag = "Value"
    /\ ret' = get_string(json)
    /\ call' = [op |-> "get_string"]
    /\ UNCHANGED <<input, lexer, tokens, last, doc, result, json, fresh>>

GetF64 ==
    /\ json # NoJson /\ json.tag = "Value"
    /\ ret' = get_f64(json)
    /\ call' = [op |-> "get_f64"]
    /\ UNCHANGED <<input, lexer, tokens, last, doc, result, json, fresh>>

GetI64 ==
    /\ json # NoJson /\ json.tag = "Value"
    /\ ret' = get_i64(json)
    /\ call' = [op |-> "get_i64"]
    /\ UNCHANGED <<input, lexer, tokens, last, doc, result, json, fresh>>

IsNull ==
    /\ json # NoJson /\ json.tag = "Value"
    /\ ret' = [val |-> is_null(json)]
    /\ call' = [op |-> "is_null"]
    /\ UNCHANGED <<input, lexer, tokens, last, doc, result, json, fresh>>

IsEof ==
    /\ json # NoJson /\ json.tag = "Value"
    /\ ret' = [val |-> is_eof(json)]
    /\ call' = [op |-> "is_eof"]
    /\ UNCHANGED <<input, lexer, tokens, last, doc, result, json, fresh>>

\* `let sub = json.get_...(key).unwrap()`: the caller goes on with the handle returned
Unwrap ==
    /\ json # NoJson
    /\ call.op \in {"get_object", "get_array", "get_value",
                    "Array.get_object", "Array.get_array", "Array.get_value"}
    /\ ret.ok
    /\ json' = ret.json
    /\ fresh' = ret.json
    /\ call' = [op |-> "unwrap"]
    /\ ret' = NoRet
    /\ UNCHANGED <<input, lexer, tokens, last, doc, result>>

NextLexer == Pull

Next ==
    \/ ParseJson
    \/ \E S \in JsonState : JsonNew(S)
    \/ \E key \in Keys : GetObject(key)
    \/ \E key \in Keys : GetArray(key)
    \/ \E key \in Keys : GetValue(key)
    \/ \E index \in Indices : ArrayGetObject(index)
    \/ \E index \in Indices : ArrayGetArray(index)
    \/ \E index \in Indices : ArrayGetValue(index)
    \/ ArrayLen \/ ArrayIsEmpty
    \/ GetBool \/ GetString \/ GetF64 \/ GetI64 \/ IsNull \/ IsEof
    \/ Unwrap

\* Lexer::new(input).parse_str() of lib.rs
LibParseStr ==
    /\ call = NoCall
    /\ ret' = lib_parse_str(lib_Lexer_new(input))
    /\ call' = [op |-> "lib.parse_str"]
    /\ UNCHANGED <<input, lexer, tokens, last, doc, result, json, fresh>>

NextRender == to_string \/ ParseJson
NextLib == LibParseStr

SpecLexer == InitLexer /\ [][NextLexer]_vars
Spec == Init /\ [][Next]_vars
SpecRender == InitRender /\ [][NextRender]_vars
SpecLib == InitLib /\ [][NextLib]_vars


(***************************************************************************)
(* Properties.                                                              *)
(***************************************************************************)

\* C1 (SpecLexer): pulling from the Lexer yields finitely many tokens (at most one per
\* input character, plus Eof); a token of kind Eof is the last one yielded, so there is
\* at most one, and it has been yielded exactly when the Lexer is exhausted; a pull
\* returns None exactly when it is made on an exhausted Lexer, and every pull that yields
\* a token other than Eof has consumed at least one character.
C1_LexerTerminates ==
    /\ \A k \in 1..Len(tokens) : tokens[k].kind = "Eof" => k = Len(tokens)
    /\ lexer.exhausted <=> (tokens # <<>> /\ tokens[Len(tokens)].kind = "Eof")
    /\ Len(tokens) <= Len(input) + 1
    /\ lexer.pos <= Len(input)
    /\ last.ret = "None" <=> last.exhausted
    /\ (last.ret = "Some" /\ tokens[Len(tokens)].kind # "Eof") => lexer.pos > last.pos
\* a pull after Eof returned None, after three tokens and Eof were yielded
C1_Witness == last.ret = "None" /\ Len(tokens) = 4 /\ tokens[4].kind = "Eof"


\* the shape a JsonData variant is of
ShapeOf(d) ==
    IF d.type = "Object" THEN "Object" ELSE IF d.type = "Array" THEN "Array" ELSE "Value"

\* C2 (Spec): Json::<S>::new(text) returns Err(IncorrectType) when text parses to a root
\* whose variant does not match S, so that every handle wraps a node of the shape of its
\* tag.
C2_NewChecksShape ==
    /\ json # NoJson => json.tag = ShapeOf(json.data)
    /\ (call.op = "new" /\ parse_json(input).ok /\ ShapeOf(parse_json(input).data) # call.S)
            => ret = JsonErr(IncorrectType)

\* the kinds of a sequence of tokens
Kinds(toks) == [k \in 1..Len(toks) |-> toks[k].kind]

\* a lexeme without its first and last character
Unquoted(text) == SubSeq(text, 2, Len(text) - 1)
\* a lexeme without its first and last character, escapes resolved
Resolved(text) == Unescape(SubSeq(text, 2, Len(text) - 1))

\* the strings of the Str nodes of a value, and the keys of its Object nodes
RECURSIVE StrValues(_)
StrValues(d) ==
    CASE d.type = "Str" -> {d.s}
      [] d.type = "Array" -> UNION {StrValues(d.a[k]) : k \in 1..Len(d.a)}
      [] d.type = "Object" -> UNION {StrValues(d.m[k]) : k \in DOMAIN d.m}
      [] OTHER -> {}
RECURSIVE ObjectKeys(_)
ObjectKeys(d) ==
    CASE d.type = "Array" -> UNION {ObjectKeys(d.a[k]) : k \in 1..Len(d.a)}
      [] d.type = "Object" -> DOMAIN d.m \cup UNION {ObjectKeys(d.m[k]) : k \in DOMAIN d.m}
      [] OTHER -> {}

\* a successful parse turns the lexeme of a Str token into the string X(lexeme): as the
\* top-level value, as an array element, as the key and as the value of an object entry;
\* and every Str node and every key of the result is X of a Str token's lexeme (a key may
\* also be the initial empty key)
StrConsumedAs(X(_)) ==
    (call.op = "parse_json" /\ result.ok) =>
        LET strs == {X(tokens[k].text) : k \in {j \in 1..Len(tokens) : tokens[j].kind = "Str"}}
        IN  /\ Kinds(tokens) = <<"Str", "Eof">> => result.data = Str(X(tokens[1].text))
            /\ Kinds(tokens) = <<"OpenBracket", "Str", "CloseBracket", "Eof">>
                    => result.data = Array(<<Str(X(tokens[2].text))>>)
            /\ Kinds(tokens) = <<"OpenCurly", "Str", "Colon", "Str", "CloseCurly", "Eof">>
                    => result.data = Object(X(tokens[2].text) :> Str(X(tokens[4].text)))
            /\ StrValues(result.data) \subseteq strs
            /\ ObjectKeys(result.data) \subseteq strs \cup {<<>>}

RECURSIVE LiteralEnd(_, _, _)
LiteralEnd(t, k, esc) ==
    IF k > Len(t) THEN 0
    ELSE IF esc THEN LiteralEnd(t, k + 1, FALSE)
    ELSE IF t[k] = BACKSLASH THEN LiteralEnd(t, k + 1, TRUE)
    ELSE IF t[k] = QUOTE THEN k
    ELSE LiteralEnd(t, k + 1, FALSE)

\* t is one terminated string literal
IsStringLiteral(t) == Len(t) >= 2 /\ t[1] = QUOTE /\ LiteralEnd(t, 2, FALSE) = Len(t)

\* t without its leading and trailing whitespace
RECURSIVE StripWhitespace(_)
StripWhitespace(t) ==
    IF t # <<>> /\ is_whitespace(t[1]) THEN StripWhitespace(Tail(t))
    ELSE IF t # <<>> /\ is_whitespace(t[Len(t)]) THEN StripWhitespace(SubSeq(t, 1, Len(t) - 1))
    ELSE t

\* C4 (Spec): for an input that is one terminated string literal between optional
\* whitespace, parse_json returns Ok(Str(c)) with c the characters of the literal between
\* its opening and its closing quote, backslash sequences kept character for character.
C4_StringLiteralKeptVerbatim ==
    LET lit == StripWhitespace(input)
    IN  (call.op = "parse_json" /\ IsStringLiteral(lit)) =>
            /\ result.ok
            /\ result.data = Str(SubSeq(lit, 2, Len(lit) - 1))
\* "a\"b" between whitespace was parsed to the 4-character string a\"b
C4_Witness ==
    /\ call.op = "parse_json" /\ result.ok
    /\ input = <<" ">> \o STR_ESC_MIXED \o <<NEWLINE>>
    /\ result.data = Str(<<"a", BACKSLASH, QUOTE, "b">>)

\* no two keys of an Object node of d are equal after escape resolution
RECURSIVE NoCollidingKeys(_)
NoCollidingKeys(d) ==
    CASE d.type = "Array" -> \A k \in 1..Len(d.a) : NoCollidingKeys(d.a[k])
      [] d.type = "Object" ->
            /\ \A j, k \in DOMAIN d.m : j # k => Unescape(j) # Unescape(k)
            /\ \A k \in DOMAIN d.m : NoCollidingKeys(d.m[k])
      [] OTHER -> TRUE

\* C5 (SpecRender): for a JsonData d without object keys that collide after escape
\* resolution, parse_json(d.to_string()) is Ok of a value equal to d.
C5_RoundTrip ==
    (call.op = "parse_json" /\ doc # NoDoc /\ NoCollidingKeys(doc))
        => (result.ok /\ result.data = doc)

\* d is a value arb_json generates: Null, Bool, Integer, Float, Str and keys without
\* backslash and quote, Arrays and Objects over these (every Float of the model is in
\* [-1000, 1000))
HasNoQuoteOrBackslash(str) == \A k \in 1..Len(str) : str[k] \notin {QUOTE, BACKSLASH}
RECURSIVE ArbJson(_)
ArbJson(d) ==
    CASE d.type \in {"Null", "Bool", "Integer", "Float"} -> TRUE
      [] d.type = "Str" -> HasNoQuoteOrBackslash(d.s)
      [] d.type = "Array" -> \A k \in 1..Len(d.a) : ArbJson(d.a[k])
      [] d.type = "Object" ->
            \A k \in DOMAIN d.m : HasNoQuoteOrBackslash(k) /\ ArbJson(d.m[k])
      [] OTHER -> FALSE

\* C6 (SpecRender): for a JsonData d built as arb_json builds it,
\* parse_json(d.to_string()) succeeds and equals d.
C6_ArbJsonRoundTrip ==
    (call.op = "parse_json" /\ doc # NoDoc /\ ArbJson(doc))
        => (result.ok /\ result.data = doc)

\* the brackets open after the tokens toks[1..k], innermost first: an opener is pushed, a
\* closer pops
RECURSIVE OpenAfter(_, _)
OpenAfter(toks, k) ==
    IF k = 0 THEN <<>>
    ELSE LET before == OpenAfter(toks, k - 1)
         IN  CASE toks[k].kind = "OpenBracket" -> <<"Array">> \o before
               [] toks[k].kind = "OpenCurly" -> <<"Object">> \o before
               [] toks[k].kind \in {"CloseBracket", "CloseCurly"} ->
                    IF before = <<>> THEN <<>> ELSE Tail(before)
               [] OTHER -> before

\* what the value ending at toks[k] is directly inside of
Enclosing(toks, k) ==
    LET open == OpenAfter(toks, k) IN IF open = <<>> THEN "Nothing" ELSE Head(open)

\* toks[k] ends a value: a closer, or a leaf that is not an object's key (a Str directly
\* inside an object is a value only right after a Colon)
IsValueEnd(toks, k) ==
    \/ toks[k].kind \in {"CloseBracket", "CloseCurly", "Integer", "Float", "Null", "True", "False"}
    \/ /\ toks[k].kind = "Str"
       /\ Enclosing(toks, k) = "Object" => (k > 1 /\ toks[k - 1].kind = "Colon")

LegalFollower(is_in, kind) ==
    \/ is_in = "Array" /\ kind \in {"Comma", "CloseBracket"}
    \/ is_in = "Object" /\ kind \in {"Comma", "CloseCurly"}
    \/ is_in = "Nothing" /\ kind = "Eof"

\* C7 (Spec): parse_json returns Ok only if the tokens of the whole input were read, up to
\* Eof, and every completed value is followed by a Comma or the matching closer inside a
\* collection and by Eof at the top level; the input 0} is rejected.
C7_ValueFollowedByLegalToken ==
    call.op = "parse_json" =>
        /\ result.ok =>
            /\ tokens = Lexer_items(input, Lexer_new)
            /\ tokens[Len(tokens)].kind = "Eof"
            /\ \A k \in 1..Len(tokens) :
                    IsValueEnd(tokens, k) =>
                        /\ k < Len(tokens)
                        /\ LegalFollower(Enclosing(tokens, k), tokens[k + 1].kind)
        /\ input = <<"0", "}">> => ~result.ok
\* [0, "a"] was parsed
C7_Witness ==
    /\ call.op = "parse_json" /\ result.ok
    /\ Kinds(tokens) = <<"OpenBracket", "Integer", "Comma", "Str", "CloseBracket", "Eof">>

AllWhitespace(t) == \A k \in 1..Len(t) : is_whitespace(t[k])

\* C8 (Spec): for an input that is empty or only whitespace, parse_json returns Ok(Eof),
\* and Json::<Value>::new returns a handle for which is_eof() is true.
C8_WhitespaceIsEof ==
    AllWhitespace(input) =>
        /\ call.op = "parse_json" => (result.ok /\ result.data = Eof)
        /\ (call.op = "new" /\ call.S = "Value")
                => (ret.ok /\ ret.json.tag = "Value" /\ is_eof(ret.json))
\* Json::<Value>::new(" \n") returned a handle that is_eof
C8_Witness ==
    /\ call.op = "new" /\ call.S = "Value"
    /\ input = <<" ", NEWLINE>>
    /\ ret.ok /\ is_eof(ret.json)

\* the brackets of toks[k..] close the brackets in open (innermost first) and each other,
\* each with its own closer, and none is left open
RECURSIVE Balanced(_, _, _)
Balanced(toks, k, open) ==
    IF k > Len(toks) THEN open = <<>>
    ELSE CASE toks[k].kind = "OpenBracket" -> Balanced(toks, k + 1, <<"CloseBracket">> \o open)
           [] toks[k].kind = "OpenCurly" -> Balanced(toks, k + 1, <<"CloseCurly">> \o open)
           [] toks[k].kind \in {"CloseBracket", "CloseCurly"} ->
                open # <<>> /\ Head(open) = toks[k].kind /\ Balanced(toks, k + 1, Tail(open))
           [] OTHER -> Balanced(toks, k + 1, open)

\* C9 (Spec): parse_json returns Ok only if every [ and { of the token stream is closed by
\* its own closer in properly nested order; an input that ends inside an array or object,
\* or closes one with the wrong closer, is rejected.
C9_BracketsBalanced ==
    call.op = "parse_json" =>
        /\ result.ok => Balanced(Lexer_items(input, Lexer_new), 1, <<>>)
        /\ input \in {<<"[">>, <<"{">>, <<"[", "}">>, <<"{", "]">>, <<"[", "{", "]">>}
                => ~result.ok
\* [{"a":0}] was parsed
C9_Witness ==
    /\ call.op = "parse_json" /\ result.ok
    /\ Kinds(tokens) = <<"OpenBracket", "OpenCurly", "Str", "Colon", "Integer", "CloseCurly",
                         "CloseBracket", "Eof">>

\* the variants an accessor of Json<Object> asks for, and the tag of what it returns
Requested(op) ==
    CASE op = "get_object" -> {"Object"}
      [] op = "get_array" -> {"Array"}
      [] op = "get_value" -> {"Null", "Bool", "Integer", "Float", "Str"}
ReturnedTag(op) ==
    CASE op = "get_object" -> "Object" [] op = "get_array" -> "Array" [] op = "get_value" -> "Value"

\* C10 (Spec): on an Object handle wrapping an Object node, get_object(key),
\* get_array(key) and get_value(key) return Err(KeyNotFound) if key is absent,
\* Err(IncorrectType) if the value under key is not of the requested shape, and otherwise
\* Ok of a handle on the value stored under key.
C10_ObjectAccessors ==
    (call.op \in {"get_object", "get_array", "get_value"} /\ json.data.type = "Object") =>
        IF call.key \notin DOMAIN json.data.m THEN ret = JsonErr(KeyNotFound)
        ELSE IF json.data.m[call.key].type \notin Requested(call.op)
        THEN ret = JsonErr(IncorrectType)
        ELSE ret = JsonOk(Json(ReturnedTag(call.op), json.data.m[call.key]))
\* get_value(key) returned an Integer's handle, on the handle an earlier get_object returned
C10_Witness ==
    /\ call.op = "get_value" /\ ret.ok /\ ret.json.data.type = "Integer"
    /\ json.data # parse_json(input).data


\* the variants an accessor of Json<Array> asks for, and the tag of what it returns
RequestedAt(op) ==
    CASE op = "Array.get_object" -> {"Object"}
      [] op = "Array.get_array" -> {"Array"}
      [] op = "Array.get_value" -> {"Null", "Bool", "Integer", "Float", "Str"}
ReturnedTagAt(op) ==
    CASE op = "Array.get_object" -> "Object"
      [] op = "Array.get_array" -> "Array"
      [] op = "Array.get_value" -> "Value"

\* C11 (Spec): on an Array handle wrapping an Array node of length n, get_object(i),
\* get_array(i) and get_value(i) return Err(IndexNotFound) iff i >= n, Err(IncorrectType)
\* if element i is not of the requested shape, and otherwise Ok of a handle on element i;
\* len() returns Ok(n) and is_empty() returns Ok(n = 0).
C11_ArrayAccessors ==
    (json # NoJson /\ json.tag = "Array" /\ json.data.type = "Array") =>
        LET n == Len(json.data.a)
        IN  /\ call.op \in {"Array.get_object", "Array.get_array", "Array.get_value"} =>
                /\ ret = JsonErr(IndexNotFound) <=> call.index >= n
                /\ call.index < n =>
                    LET elem == json.data.a[call.index + 1]
                    IN  IF elem.type \notin RequestedAt(call.op)
                        THEN ret = JsonErr(IncorrectType)
                        ELSE ret = JsonOk(Json(ReturnedTagAt(call.op), elem))
            /\ call.op = "Array.len" => ret = ValOk(n)
            /\ call.op = "Array.is_empty" => ret = ValOk(n = 0)
\* get_value(1) returned the handle of the second element of a two-element array
C11_Witness ==
    /\ call.op = "Array.get_value" /\ call.index = 1
    /\ json.data.type = "Array" /\ Len(json.data.a) = 2
    /\ ret.ok /\ ret.json.data = json.data.a[2] /\ json.data.a[1] # json.data.a[2]


\* C12 (Spec): on a Value handle, get_bool / get_string / get_i64 / get_f64 return Ok(v)
\* iff the wrapped node is Bool(v) / Str(v) / Integer(v) / Float(v) and
\* Err(IncorrectType) for every other variant; is_null() is true iff the node is Null and
\* is_eof() is true iff the node is Eof.
C12_ValueAccessors ==
    (json # NoJson /\ json.tag = "Value") =>
        LET d == json.data
            Typed(type, v) ==
                \/ d.type = type /\ ret = ValOk(v)
                \/ d.type # type /\ ret = JsonErr(IncorrectType)
        IN  /\ call.op = "get_bool" => Typed("Bool", d.b) /\ (ret.ok => d = Bool(ret.val))
            /\ call.op = "get_string" => Typed("Str", d.s) /\ (ret.ok => d = Str(ret.val))
            /\ call.op = "get_i64" => Typed("Integer", d.i) /\ (ret.ok => d = Integer(ret.val))
            /\ call.op = "get_f64" => Typed("Float", d.f) /\ (ret.ok => d = Float(ret.val))
            /\ call.op = "is_null" => (ret.val <=> d = Null)
            /\ call.op = "is_eof" => (ret.val <=> d = Eof)
\* get_bool() on an Integer-valued handle failed with IncorrectType
C12_Witness ==
    /\ call.op = "get_bool" /\ json.tag = "Value" /\ json.data.type = "Integer"
    /\ ret = JsonErr(IncorrectType)


\* the accessors, and what the call c returns on the handle self
AccessorOps ==
    { "get_object", "get_array", "get_value", "Array.get_object", "Array.get_array",
      "Array.get_value", "Array.len", "Array.is_empty", "get_bool", "get_string", "get_f64",
      "get_i64", "is_null", "is_eof" }
AccessorResult(self, c) ==
    CASE c.op = "get_object" -> Object_get_object(self, c.key)
      [] c.op = "get_array" -> Object_get_array(self, c.key)
      [] c.op = "get_value" -> Object_get_value(self, c.key)
      [] c.op = "Array.get_object" -> Array_get_object(self, c.index)
      [] c.op = "Array.get_array" -> Array_get_array(self, c.index)
      [] c.op = "Array.get_value" -> Array_get_value(self, c.index)
      [] c.op = "Array.len" -> Array_len(self)
      [] c.op = "Array.is_empty" -> Array_is_empty(self)
      [] c.op = "get_bool" -> get_bool(self)
      [] c.op = "get_string" -> get_string(self)
      [] c.op = "get_f64" -> get_f64(self)
      [] c.op = "get_i64" -> get_i64(self)
      [] c.op = "is_null" -> [val |-> is_null(self)]
      [] c.op = "is_eof" -> [val |-> is_eof(self)]

\* C13 (Spec): an accessor call, successful or failing, leaves the handle as it was when
\* it was created, so after any sequence of accessor calls an accessor returns what it
\* returns on the freshly created handle.
C13_AccessorsLeaveHandle ==
    /\ json = fresh
    /\ call.op \in AccessorOps => ret = AccessorResult(fresh, call)
\* get_bool() failed on a handle that an earlier, successful accessor call returned
C13_Witness ==
    /\ call.op = "get_bool" /\ ret = JsonErr(IncorrectType)
    /\ json = fresh /\ json.data # parse_json(input).data


\* toks[k] completes a value: it ends one, and a number token converts to its value
IsCompletedValue(toks, k) ==
    /\ IsValueEnd(toks, k)
    /\ toks[k].kind = "Integer" => parse_i64(toks[k].text).ok
    /\ toks[k].kind = "Float" => parse_f64(toks[k].text).ok

\* the parse failed where a completed value is followed by a token that is not legal in
\* the enclosing context: the last two tokens pulled are that value's end and its follower
IllegalFollowerFound ==
    /\ call.op = "parse_json" /\ ~result.ok
    /\ Len(tokens) >= 2
    /\ IsCompletedValue(tokens, Len(tokens) - 1)
    /\ ~LegalFollower(Enclosing(tokens, Len(tokens) - 1), tokens[Len(tokens)].kind)

\* C14 (Spec), as stated: when a completed value of any kind is followed by a token that
\* is not legal in the enclosing context, the SyntaxError of parse_json carries that
\* following token.
C14_ErrorCarriesFollower ==
    IllegalFollowerFound => result.err = SyntaxError(tokens[Len(tokens)])

\* C14 (Spec), amended: when a completed value is followed by a token that is not legal in
\* the enclosing context, the SyntaxError of parse_json carries that following token if
\* the value is a null, bool, float, string, array or object, and the Integer token
\* itself if the value is an integer.
C14_ErrorCarriesFollowerOrInteger ==
    IllegalFollowerFound =>
        result.err = SyntaxError(IF tokens[Len(tokens) - 1].kind = "Integer"
                                 THEN tokens[Len(tokens) - 1]
                                 ELSE tokens[Len(tokens)])
\* 0} was rejected with the Integer token 0 in the error
C14_Witness ==
    /\ IllegalFollowerFound
    /\ input = <<"0", "}">>
    /\ result.err = SyntaxError(tokens[1]) /\ tokens[1].kind = "Integer"


\* t without an optional leading '-'
Unsigned(t) == IF t # <<>> /\ t[1] = "-" THEN Tail(t) ELSE t
\* optional '-', one or more digits
IsIntegerText(t) == AllDigits(Unsigned(t))
\* optional '-', one or more digits, '.', one or more digits
IsFloatText(t) ==
    \E k \in 1..Len(Unsigned(t)) :
        /\ Unsigned(t)[k] = "."
        /\ AllDigits(SubSeq(Unsigned(t), 1, k - 1))
        /\ AllDigits(SubSeq(Unsigned(t), k + 1, Len(Unsigned(t))))

\* C15 (SpecLexer): every Float token of the Lexer has a text of the form optional '-',
\* digits, exactly one '.', digits, and every Integer token a text of the form optional
\* '-', digits; a second '.' is never accepted into a Float token.
C15_NumberTokensWellFormed ==
    \A k \in 1..Len(tokens) :
        /\ tokens[k].kind = "Float" => IsFloatText(tokens[k].text)
        /\ tokens[k].kind = "Integer" => IsIntegerText(tokens[k].text)


\* t without its leading whitespace
RECURSIVE StripLeadingWhitespace(_)
StripLeadingWhitespace(t) ==
    IF t # <<>> /\ is_whitespace(t[1]) THEN StripLeadingWhitespace(Tail(t)) ELSE t

\* the length of the longest prefix of t made of digits
RECURSIVE DigitRun(_)
DigitRun(t) == IF t # <<>> /\ t[1] \in Digits THEN 1 + DigitRun(Tail(t)) ELSE 0

\* C16 (SpecLexer): the first token of an input is Invalid when, after the leading
\* whitespace, the input starts with a '-' that is not followed by a digit (text "-"),
\* with a '.' (text "."), or with an optional '-' and digits followed by a '.' that is not
\* followed by a digit (text: the sign, the digits and the '.').
C16_MalformedNumberIsInvalid ==
    tokens # <<>> =>
        LET t == StripLeadingWhitespace(input)
            u == Unsigned(t)
            n == DigitRun(u)
        IN  /\ (t # <<>> /\ t[1] = "-" /\ (Len(t) = 1 \/ t[2] \notin Digits))
                    => (tokens[1].kind = "Invalid" /\ tokens[1].text = <<"-">>)
            /\ (t # <<>> /\ t[1] = ".")
                    => (tokens[1].kind = "Invalid" /\ tokens[1].text = <<".">>)
            /\ (n > 0 /\ Len(u) > n /\ u[n + 1] = "." /\ (Len(u) = n + 1 \/ u[n + 2] \notin Digits))
                    => (tokens[1].kind = "Invalid"
                        /\ tokens[1].text = SubSeq(t, 1, Len(t) - Len(u) + n + 1))
\* the first token of -1. is Invalid with the text -1.
C16_Witness ==
    /\ input = <<"-", "1", ".">>
    /\ tokens # <<>> /\ tokens[1].kind = "Invalid" /\ tokens[1].text = <<"-", "1", ".">>


\* the input the latest pull started at, without the whitespace it skipped first
Upcoming == StripLeadingWhitespace(SubSeq(input, last.pos + 1, Len(input)))

\* the length of the longest common prefix of two sequences
RECURSIVE CommonPrefix(_, _)
CommonPrefix(a, b) ==
    IF a # <<>> /\ b # <<>> /\ a[1] = b[1] THEN 1 + CommonPrefix(Tail(a), Tail(b)) ELSE 0

KeywordOf(c) == CASE c = "n" -> NULL_TEXT [] c = "t" -> TRUE_TEXT [] c = "f" -> FALSE_TEXT
KindOf(c) == CASE c = "n" -> "Null" [] c = "t" -> "True" [] c = "f" -> "False"

\* C17 (SpecLexer): when the next non-whitespace character is n, t or f, the Lexer yields
\* Null / True / False with the keyword as text iff the characters from there spell
\* null / true / false; otherwise it yields Invalid with the longest prefix of the
\* keyword that matched as text; in both cases it has consumed the matched characters
\* only, so the first mismatching character is left for the next token.
C17_KeywordTokens ==
    (last.ret = "Some" /\ Upcoming # <<>> /\ Upcoming[1] \in {"n", "t", "f"}) =>
        LET kw == KeywordOf(Upcoming[1])
            m == CommonPrefix(Upcoming, kw)
            tok == tokens[Len(tokens)]
        IN  /\ tok.kind = KindOf(Upcoming[1]) <=> m = Len(kw)
            /\ tok.kind \in {KindOf(Upcoming[1]), "Invalid"}
            /\ tok.text = SubSeq(kw, 1, m)
            /\ lexer.pos = Len(input) - Len(Upcoming) + m
\* after a space, nul1 gave Invalid with the text nul, and the 1 was left in the input
C17_Witness ==
    /\ input = <<" ", "n", "u", "l", "1">>
    /\ Len(tokens) = 1 /\ tokens[1].kind = "Invalid" /\ tokens[1].text = <<"n", "u", "l">>
    /\ lexer.pos = 4


\* C18 (SpecLexer): when the next non-whitespace character is a double quote, the Lexer
\* yields a Str token iff an unescaped quote follows; its text is the lexeme from the
\* opening quote through the first unescaped quote (at least two characters, the first
\* and the last a quote); if the input ends first, it yields Invalid with the opening
\* quote and everything after it as text.
C18_StringTokens ==
    (last.ret = "Some" /\ Upcoming # <<>> /\ Upcoming[1] = QUOTE) =>
        LET closing == LiteralEnd(Upcoming, 2, FALSE)
            tok == tokens[Len(tokens)]
        IN  /\ tok.kind = "Str" <=> closing > 0
            /\ tok.kind \in {"Str", "Invalid"}
            /\ tok.kind = "Str" =>
                /\ tok.text = SubSeq(Upcoming, 1, closing)
                /\ Len(tok.text) >= 2 /\ tok.text[1] = QUOTE /\ tok.text[Len(tok.text)] = QUOTE
                /\ lexer.pos = Len(input) - Len(Upcoming) + closing
            /\ tok.kind = "Invalid" => (tok.text = Upcoming /\ lexer.pos = Len(input))
\* "\"" was read as one Str token
C18_Witness ==
    /\ input = STR_ESC_QUOTE
    /\ Len(tokens) = 1 /\ tokens[1].kind = "Str" /\ tokens[1].text = STR_ESC_QUOTE


\* the position in inp after the whitespace that starts at position pos (0-based)
RECURSIVE SkipWhitespace(_, _)
SkipWhitespace(inp, pos) ==
    IF pos < Len(inp) /\ is_whitespace(inp[pos + 1]) THEN SkipWhitespace(inp, pos + 1) ELSE pos

\* the position reached in inp from pos by reading, for each token of ts in order, the
\* whitespace before it and then exactly its text; -1 if some text is not what is there
RECURSIVE Account(_, _, _)
Account(inp, pos, ts) ==
    IF ts = <<>> THEN pos
    ELSE LET p == SkipWhitespace(inp, pos)
             t == Head(ts).text
         IN  IF p + Len(t) <= Len(inp) /\ SubSeq(inp, p + 1, p + Len(t)) = t
             THEN Account(inp, p + Len(t), Tail(ts))
             ELSE -1

\* C19 (SpecLexer): the texts of the tokens yielded so far, concatenated, are the
\* consumed prefix of the input without the whitespace skipped before each token: no
\* consumed character that is not such whitespace is missing, duplicated or reordered
\* (this holds for all tokens, those after an Invalid token included).
C19_TextsAccountForInput == Account(input, 0, tokens) = lexer.pos
\* 1 {, a space in between, was read to its end
C19_Witness ==
    /\ input = <<"1", " ", "{">>
    /\ Len(tokens) = 3 /\ lexer.exhausted /\ tokens[2].text = <<"{">>


\* the number of line feeds in a sequence of characters
RECURSIVE Newlines(_)
Newlines(t) ==
    IF t = <<>> THEN 0 ELSE (IF t[1] = NEWLINE THEN 1 ELSE 0) + Newlines(Tail(t))

\* the number of line feeds in the texts of a sequence of tokens
RECURSIVE NewlinesIn(_)
NewlinesIn(ts) == IF ts = <<>> THEN 0 ELSE Newlines(Head(ts).text) + NewlinesIn(Tail(ts))

\* the number of characters of inp up to position pos that are in the row of position pos
RECURSIVE CharsInRow(_, _)
CharsInRow(inp, pos) ==
    IF pos = 0 \/ inp[pos] = NEWLINE THEN 0 ELSE 1 + CharsInRow(inp, pos - 1)

\* the position in the input of the last character of the k-th token yielded
EndOf(k) == Account(input, 0, SubSeq(tokens, 1, k))
\* the number of line feeds skipped as whitespace before the k-th token
SkippedNewlines(k) ==
    Newlines(SubSeq(input, 1, EndOf(k))) - NewlinesIn(SubSeq(tokens, 1, k))

\* C20 (SpecLexer): the location of every token, of whatever kind, is the 1-based row and
\* column of the end of its lexeme: row is 1 plus the number of line feeds skipped before
\* the token, and col is the number of characters of the current row up to the lexeme's
\* last character (stated here for both readings of "end": the last character, off = 0,
\* or the position after it, off = 1, the same reading for all tokens).
C20_LocationIsEndOfLexeme ==
    \E off \in {0, 1} :
        \A k \in 1..Len(tokens) :
            /\ tokens[k].loc.row = 1 + SkippedNewlines(k)
            /\ tokens[k].loc.col = CharsInRow(input, EndOf(k)) + off

\* the members of the object literal whose first member starts at toks[k], read by the
\* grammar  member (Comma member)* CloseCurly  with  member = Str Colon value : the
\* sequence of [key, data] in source order and the position after the CloseCurly, or
\* ok = FALSE where the tokens are not of that form
RECURSIVE Members(_, _, _)
Members(toks, k, acc) ==
    IF ~(k + 2 <= Len(toks) /\ toks[k].kind = "Str" /\ toks[k + 1].kind = "Colon")
    THEN [ok |-> FALSE]
    ELSE LET v == eat(toks, k + 2, "Object")
             more == Append(acc, [key |-> Unquoted(toks[k].text), data |-> v.data])
         IN  IF ~v.ok \/ ~HasTok(toks, v.i) THEN [ok |-> FALSE]
             ELSE IF toks[v.i].kind = "CloseCurly" THEN [ok |-> TRUE, ms |-> more, i |-> v.i + 1]
             ELSE Members(toks, v.i + 1, more)

\* the map of a sequence of members: every key with the value of its last occurrence
LastWins(ms) ==
    [key \in {ms[n].key : n \in 1..Len(ms)} |->
        ms[CHOOSE n \in 1..Len(ms) :
                /\ ms[n].key = key
                /\ \A o \in 1..Len(ms) : ms[o].key = key => o <= n].data]

HasDuplicateKey(ms) == \E n, o \in 1..Len(ms) : n # o /\ ms[n].key = ms[o].key

\* C21 (Spec): for an input that is one object literal of well-formed members, the same
\* key occurring more than once included, parse_json returns Ok(Object(m)) where m has
\* exactly one entry per distinct key, with the value of the key's last occurrence in
\* source order.
C21_DuplicateKeyLastWins ==
    LET toks == Lexer_items(input, Lexer_new)
        r == Members(toks, 2, <<>>)
    IN  (/\ call.op = "parse_json"
         /\ toks[1].kind = "OpenCurly"
         /\ r.ok /\ toks[r.i].kind = "Eof")
            => /\ result.ok
               /\ result.data = Object(LastWins(r.ms))
               /\ Cardinality(DOMAIN result.data.m)
                    = Cardinality({r.ms[n].key : n \in 1..Len(r.ms)})
\* {"a":0,"a":null} was parsed: one entry, a |-> null
C21_Witness ==
    /\ call.op = "parse_json"
    /\ input = <<"{">> \o STR_A \o <<":", "0", ",">> \o STR_A \o <<":">> \o NULL_TEXT \o <<"}">>
    /\ HasDuplicateKey(Members(Lexer_items(input, Lexer_new), 2, <<>>).ms)
    /\ result.ok
    /\ result.data = Object([k \in {<<"a">>} |-> Null])

\* toks[k] is a Str in key position: directly inside an object and not the value after a
\* Colon
IsKeyToken(toks, k) ==
    /\ k >= 2
    /\ toks[k].kind = "Str"
    /\ Enclosing(toks, k) = "Object"
    /\ toks[k - 1].kind # "Colon"

\* C22 (Spec): parse_json returns Ok only if every Colon token of the input is directly
\* inside an object and the token immediately before it is a key String: a Colon directly
\* after `{`, after a Comma, after a value or after another Colon makes the parse fail.
C22_ColonOnlyAfterKey ==
    (call.op = "parse_json" /\ result.ok) =>
        \A k \in 1..Len(tokens) :
            tokens[k].kind = "Colon" =>
                /\ Enclosing(tokens, k) = "Object"
                /\ IsKeyToken(tokens, k - 1)

\* a key is expected at toks[k]: directly inside an object, the token before it is the
\* `{`, a Comma, or a key String (which no Colon has followed yet)
KeyExpectedAt(toks, k) ==
    /\ k >= 2
    /\ Enclosing(toks, k - 1) = "Object"
    /\ \/ toks[k - 1].kind \in {"OpenCurly", "Comma"}
       \/ IsKeyToken(toks, k - 1)

NotAKey == {"Comma", "Integer", "Float", "Null", "True", "False", "OpenBracket", "OpenCurly"}

\* C23 (Spec): an input in which, where an object expects a key, there is a Comma or a
\* token that starts a value other than a String, is rejected by parse_json with a
\* SyntaxError; so are {, and {"a"0}.
C23_KeyExpected ==
    LET toks == Lexer_items(input, Lexer_new)
    IN  call.op = "parse_json" =>
            /\ (\E k \in 2..Len(toks) : KeyExpectedAt(toks, k) /\ toks[k].kind \in NotAKey)
                    => (~result.ok /\ result.err.kind = "SyntaxError")
            /\ input \in {<<"{", ",">>, <<"{">> \o STR_A \o <<"0", "}">>} => ~result.ok
\* {"a"0} was rejected at the 0
C23_Witness ==
    /\ call.op = "parse_json"
    /\ input = <<"{">> \o STR_A \o <<"0", "}">>
    /\ KeyExpectedAt(tokens, 3) /\ tokens[3].kind = "Integer"
    /\ ~result.ok /\ result.err = SyntaxError(tokens[3])

\* toks[k] starts an element of the array literal opened by toks[1]: it is directly
\* inside that array and is neither a Comma nor the closer
IsElementStart(toks, k) ==
    /\ k >= 2
    /\ Len(OpenAfter(toks, k - 1)) = 1
    /\ toks[k].kind \notin {"Comma", "CloseBracket"}

\* the values of the elements that start in toks[1..k], in source order
RECURSIVE Elements(_, _)
Elements(toks, k) ==
    IF k = 0 THEN <<>>
    ELSE Elements(toks, k - 1)
            \o (IF IsElementStart(toks, k) THEN <<eat(toks, k, "Array").data>> ELSE <<>>)

StartsValue == {"Integer", "Float", "Str", "Null", "True", "False", "OpenBracket", "OpenCurly"}

\* C24 (Spec): when parse_json accepts an input that is an array literal, the Array holds
\* exactly the values of its element positions, in source order, and no element for any
\* Comma, leading, trailing or repeated; an input with an array in which a value is
\* directly followed by the start of another value is rejected.
C24_ArrayElements ==
    LET toks == Lexer_items(input, Lexer_new)
    IN  call.op = "parse_json" =>
            /\ (result.ok /\ toks[1].kind = "OpenBracket")
                    => result.data = Array(Elements(toks, Len(toks)))
            /\ (\E k \in 1..(Len(toks) - 1) :
                    /\ IsValueEnd(toks, k) /\ Enclosing(toks, k) = "Array"
                    /\ toks[k + 1].kind \in StartsValue)
                    => ~result.ok
\* [,0,,null,] was parsed to [0, null]
C24_Witness ==
    /\ call.op = "parse_json"
    /\ input = <<"[", ",", "0", ",", ",">> \o NULL_TEXT \o <<",", "]">>
    /\ result.ok
    /\ result.data = Array(<<Integer(I64(FALSE, <<"0">>)), Null>>)

\* the number a sequence of at most seven digits denotes
RECURSIVE ChunkVal(_)
ChunkVal(ds) ==
    IF ds = <<>> THEN 0 ELSE 10 * ChunkVal(SubSeq(ds, 1, Len(ds) - 1)) + DigitVal(ds[Len(ds)])

\* a magnitude of at most 21 digits as three numbers below 10^7, most significant first
Chunks(mag) ==
    LET padded == [k \in 1..(21 - Len(mag)) |-> "0"] \o mag
    IN  <<ChunkVal(SubSeq(padded, 1, 7)), ChunkVal(SubSeq(padded, 8, 14)),
          ChunkVal(SubSeq(padded, 15, 21))>>

ChunksLeq(a, b) ==
    \/ a[1] < b[1]
    \/ a[1] = b[1] /\ a[2] < b[2]
    \/ a[1] = b[1] /\ a[2] = b[2] /\ a[3] <= b[3]

\* 9223372036854775807 and 9223372036854775808
I64_MAX_CHUNKS == <<92233, 7203685, 4775807>>
I64_MIN_CHUNKS == <<92233, 7203685, 4775808>>

\* the integer literal t denotes a value of the signed 64-bit range
InI64Range(t) ==
    LET mag == strip_leading_zeros(Unsigned(t))
    IN  /\ Len(mag) <= 19
        /\ ChunksLeq(Chunks(mag), IF t[1] = "-" THEN I64_MIN_CHUNKS ELSE I64_MAX_CHUNKS)

\* the i64 i is the value the integer literal t denotes
IsValueOf(i, t) ==
    LET mag == strip_leading_zeros(Unsigned(t))
    IN  /\ Len(i.mag) <= 19 /\ Chunks(i.mag) = Chunks(mag)
        /\ i.mag[1] # "0" \/ i.mag = <<"0">>
        /\ i.neg = (t[1] = "-" /\ Chunks(mag) # <<0, 0, 0>>)

RECURSIVE LastNewline(_)
LastNewline(s) ==
    IF s = <<>> THEN 0 ELSE IF s[Len(s)] = NEWLINE THEN Len(s)
    ELSE LastNewline(SubSeq(s, 1, Len(s) - 1))

Contains(s, sub) == \E o \in 0..(Len(s) - Len(sub)) : SubSeq(s, o + 1, o + Len(sub)) = sub

\* diag is a diagnostic for the token tok: a first part holding the lexeme and row:col,
\* and a last line of as many carets as the lexeme has characters, under the lexeme
IsDiagnosticOf(diag, tok) ==
    LET p == LastNewline(diag)
        one == SubSeq(diag, 1, p - 1)
        two == SubSeq(diag, p + 1, Len(diag))
    IN  /\ p > 0
        /\ Contains(one, usize_to_string(tok.loc.row) \o <<":">> \o usize_to_string(tok.loc.col))
        /\ \E o \in 0..(Len(one) - Len(tok.text)) :
                /\ SubSeq(one, o + 1, o + Len(tok.text)) = tok.text
                /\ two = repeat(" ", o) \o repeat("^", Len(tok.text))

\* the input ends where an element of an array or the value of an object's member may
\* start: its last token is a `[`, a Comma inside an array, or a Colon
EndsWhereValueMayStart(toks) ==
    LET n == Len(toks)
    IN  /\ n >= 2
        /\ \/ toks[n - 1].kind \in {"OpenBracket", "Colon"}
           \/ toks[n - 1].kind = "Comma" /\ Enclosing(toks, n - 1) = "Array"

RECURSIVE Unquote(_, _, _)
Unquote(t, k, out) ==
    IF k > Len(t) THEN [closed |-> FALSE]
    ELSE IF t[k] = QUOTE THEN [closed |-> TRUE, s |-> out, at |-> k]
    ELSE IF k < Len(t) /\ t[k] = BACKSLASH /\ t[k + 1] = QUOTE
    THEN Unquote(t, k + 2, out \o <<QUOTE>>)
    ELSE IF k < Len(t) /\ t[k] = BACKSLASH /\ t[k + 1] = BACKSLASH
    THEN Unquote(t, k + 2, out \o <<BACKSLASH, BACKSLASH>>)
    ELSE Unquote(t, k + 1, out \o <<t[k]>>)

\* C27 (SpecLib): on a text that starts with a quote and has a closing quote, parse_str
\* of lib.rs returns the characters between them with backslash-quote turned into a quote,
\* backslash-backslash kept as two backslashes and every other character unchanged, ends
\* at the first quote that is not part of such a sequence, and leaves the cursor after it.
C27_LibParseStr ==
    LET t == str_trim(input)
        u == Unquote(t, 2, <<>>)
    IN  (call.op = "lib.parse_str" /\ t # <<>> /\ t[1] = QUOTE /\ u.closed) =>
            /\ ~ret.panic
            /\ ret.s = u.s
            /\ ret.cursor = u.at
\* "\"\\" was read: a quote and two backslashes, the cursor after the closing quote
C27_Witness ==
    /\ call.op = "lib.parse_str"
    /\ input = <<QUOTE, BACKSLASH, QUOTE, BACKSLASH, BACKSLASH, QUOTE>>
    /\ ret = [panic |-> FALSE, s |-> <<QUOTE, BACKSLASH, BACKSLASH>>, cursor |-> 6]

\* Eof occurs in d, at any depth
RECURSIVE HasEof(_)
HasEof(d) ==
    CASE d.type = "Eof" -> TRUE
      [] d.type = "Array" -> \E k \in 1..Len(d.a) : HasEof(d.a[k])
      [] d.type = "Object" -> \E k \in DOMAIN d.m : HasEof(d.m[k])
      [] OTHER -> FALSE

\* C28 (Spec): when parse_json returns Ok(d), Eof occurs in d only as the whole of d, and
\* then the input has no token but Eof; an input that ends inside an open array or object,
\* where the loops of parse_json_array and parse_json_object store Eof, ends in an error.
C28_NoEofInside ==
    LET toks == Lexer_items(input, Lexer_new)
    IN  call.op = "parse_json" =>
            /\ result.ok =>
                /\ HasEof(result.data) => result.data = Eof
                /\ result.data = Eof => AllWhitespace(input)
            /\ OpenAfter(toks, Len(toks)) # <<>> => ~result.ok
\* [0, was rejected: the input ended where the array had stored Eof as an element
C28_Witness ==
    /\ call.op = "parse_json"
    /\ input = <<"[", "0", ",">>
    /\ Kinds(tokens) = <<"OpenBracket", "Integer", "Comma", "Eof">>
    /\ result = Err(UnexpectedEof, 5)

\* C29 (SpecLexer): after every pull the Lexer, which is then as it was when get_loc made
\* the location of the token just yielded, has col >= char_count, so col - char_count + 1
\* does not underflow and every location has a column of at least 1; this on every input,
\* keywords (which decrement col) and line feeds (which set char_count to col) included.
C29_ColAtLeastCharCount ==
    /\ lexer.col >= lexer.char_count
    /\ lexer.char_count >= 0
    /\ \A k \in 1..Len(tokens) : tokens[k].loc.col >= 1
\* in <space, line feed, nul> the keyword was read after a line feed at column 1
C29_Witness ==
    /\ input = <<" ", NEWLINE, "n", "u", "l">>
    /\ Len(tokens) = 1 /\ tokens[1].kind = "Invalid" /\ tokens[1].text = <<"n", "u", "l">>
    /\ lexer.char_count = 1 /\ lexer.col = 4
    /\ tokens[1].loc = [col |-> 4, row |-> 2]

\* toks[k] starts a value directly inside an object
IsMemberValueStart(toks, k) ==
    /\ k >= 2
    /\ Enclosing(toks, k - 1) = "Object"
    /\ toks[k].kind \in StartsValue
    /\ ~IsKeyToken(toks, k)

\* the keys of the key Strings directly inside the object literal opened by toks[1]
KeysOfLiteral(toks) ==
    {Unquoted(toks[k].text) :
        k \in {n \in 2..Len(toks) : IsKeyToken(toks, n) /\ Len(OpenAfter(toks, n)) = 1}}

\* C30 (Spec): when parse_json accepts an input, every key String of every object literal
\* in it is followed by a Colon and the start of a value, every value directly inside an
\* object comes after a key String and a Colon, and for an input that is an object literal
\* the keys of the Object are exactly the keys of its key Strings: a key without a value,
\* two keys in a row and a value without a key are rejected.
C30_KeysAndValuesPaired ==
    (call.op = "parse_json" /\ result.ok) =>
        /\ \A k \in 2..Len(tokens) :
                IsKeyToken(tokens, k) =>
                    /\ tokens[k + 1].kind = "Colon"
                    /\ tokens[k + 2].kind \in StartsValue
        /\ \A k \in 2..Len(tokens) :
                IsMemberValueStart(tokens, k) =>
                    /\ tokens[k - 1].kind = "Colon"
                    /\ IsKeyToken(tokens, k - 2)
        /\ tokens[1].kind = "OpenCurly" => DOMAIN result.data.m = KeysOfLiteral(tokens)

=============================================================================
